---- MODULE Spec2Model ----
\* Backtesting engine (src/server/backtest/engine.js): BacktestEngine.run and
\* BacktestEngine.calculateMetrics as a state machine, with timeframeToMs,
\* aggregateCandles and createMultiTimeframeData as operators.
\*
\* Arithmetic is exact.  Rates are integers in units of the engine's default
\* rates: commission in units of 1/CommDen (0.001), slippage in units of
\* 1/SlipDen (0.0005).  Prices (entryPrice, exitPrice) are integers in units of
\* 1/SlipDen, money (capital, totalCost, netRevenue, pnl) in units of
\* 1/MoneyUnit, MoneyUnit = SlipDen * CommDen.  Candle closes, sizes and the
\* initial capital are whole numbers.  Indices are 0-based as in the code; the
\* candle of step i is primarySeries[i + 1].  Timestamps are milliseconds.
\* A timeframe label is the sequence of its characters.  A call that returns v
\* is [ok |-> TRUE, value |-> v], a call that throws [ok |-> FALSE, error |-> e].
EXTENDS Integers, Sequences, FiniteSets, TLC

\* ------------------------------------------------------------------ bounds
MaxLen == 3
MaxClose == 2
MaxSize == 2
MaxCapital == 3
MaxTick == 2
MaxRows == 2
MaxFiles == 2
MaxOrders == 3
MaxCandles == 2

\* --------------------------------------------------------------- constants
CommDen == 1000
SlipDen == 2000
DefaultCommission == 1
DefaultSlippage == 1
DefaultInitialCapital == 10000

MoneyUnit == SlipDen * CommDen

VARIABLES
    call,           \* the call under way and its arguments
    engine,         \* this.commission, this.slippage, this.initialCapital, this.timeframes
    candlesByTf,    \* run(): the dataset, its keys in Object.keys order
    primarySeries,  \* the candles run() iterates over
    tfIndices,      \* run(): the cursor of each key of candlesByTf
    ctx,            \* the context of the latest strategy call
    state,          \* run(): the state bag, as the set of the steps that wrote to it
    reached,        \* what of the host the strategy code has got hold of
    equityPoints,   \* the EquityPoints run() has recorded
    params,         \* run()'s params argument, handed to every strategy call
    pc,             \* "loop": before/inside the for loop, "done": run() returned
    i,              \* loop index
    capital,
    position,
    trades,
    signals,        \* what the strategy call of each step 0..i-1 resulted in
    errorLog,       \* console.error calls of the catch block, in order
    runs,           \* the locals of each of two calls of run() under way together
    broker,         \* a PaperBroker: balance, equity, positions, orders
    sessionObjects, \* the session objects made by setupLiveTrading, by session id
    activeSessions, \* the keys of the Map activeSessions
    timers,         \* the intervals that are set and not cleared, each with its session
    ticks,          \* the interval callbacks under way, each at one of its awaits
    result          \* the value run() resolves to

vars == <<call, engine, candlesByTf, primarySeries, tfIndices, ctx, state, reached,
          equityPoints, params, pc, i,
          capital, position, trades, signals, errorLog, runs, broker, sessionObjects,
          activeSessions, timers, ticks, result>>

\* ------------------------------------------------------------- constructor
\* options.x || default: a missing or zero option takes the default.
\* options.timeframes || (options.timeframe ? [options.timeframe] : ['1h']):
\* an array, also the empty one, is taken as it is; the legacy option
\* timeframe counts when it is a non-empty string.
BacktestEngine(options) ==
    [commission     |-> IF options.commission = 0 THEN DefaultCommission ELSE options.commission,
     slippage       |-> IF options.slippage = 0 THEN DefaultSlippage ELSE options.slippage,
     initialCapital |-> IF options.initialCapital = 0 THEN DefaultInitialCapital ELSE options.initialCapital,
     timeframes     |-> IF options.hasTimeframes THEN options.timeframes
                        ELSE IF options.timeframe # <<>> THEN <<options.timeframe>>
                        ELSE << <<"1", "h">> >>]

\* The options the engine is constructed with: the default rates, or a
\* commission of 0.1 and a slippage of 0.1; no timeframe option.
EngineOptions ==
    {[commission |-> 0, slippage |-> 0, initialCapital |-> MaxCapital,
      hasTimeframes |-> FALSE, timeframes |-> <<>>, timeframe |-> <<>>],
     [commission |-> 100, slippage |-> 200, initialCapital |-> MaxCapital,
      hasTimeframes |-> FALSE, timeframes |-> <<>>, timeframe |-> <<>>]}

\* ------------------------------------------------------------------ inputs
HourMs == 3600000

\* A candle that opened, peaked, bottomed and closed at one price.
FlatCandle(ts, price) ==
    [timestamp |-> ts, open |-> price, high |-> price, low |-> price,
     close |-> price, volume |-> 0]


\* Candles of a raw series: hourly timestamps 0:00, 1:00, 2:00, ..., closes
\* from 1 to MaxClose.
AllSeries ==
    {[k \in 1..Len(cs) |-> FlatCandle((k - 1) * HourMs, cs[k])] :
        cs \in UNION {[1..n -> 1..MaxClose] : n \in 0..MaxLen}}

\* What one strategy call can do: throw (or reject), resolve to null/undefined,
\* or resolve to an object.  The object's `signal` field is BUY, SELL, HOLD,
\* some other string ("buy"), or absent ("undefined"); a BUY or SELL carries
\* the size of the params.
StrategyResults(prm) ==
    {[outcome |-> "throw", signal |-> "undefined", hasSize |-> FALSE, size |-> 0],
     [outcome |-> "null", signal |-> "undefined", hasSize |-> FALSE, size |-> 0]}
    \cup
    {[outcome |-> "object", signal |-> a, hasSize |-> FALSE, size |-> 0] :
        a \in {"HOLD", "buy", "undefined"}}
    \cup
    {[outcome |-> "object", signal |-> a, hasSize |-> prm.hasSize, size |-> prm.size] :
        a \in {"BUY", "SELL"}}

NoPosition == [side |-> "NONE"]

\* ------------------------------------------------------------- timeframes
MinuteMs == 60000

DayMs == 86400000

Return(v) == [ok |-> TRUE, value |-> v]

Throw(e) == [ok |-> FALSE, error |-> e]

Digits == {"0", "1", "2", "3", "4", "5", "6", "7", "8", "9"}

DigitValue(ch) ==
    CASE ch = "0" -> 0 [] ch = "1" -> 1 [] ch = "2" -> 2 [] ch = "3" -> 3
      [] ch = "4" -> 4 [] ch = "5" -> 5 [] ch = "6" -> 6 [] ch = "7" -> 7
      [] ch = "8" -> 8 [] ch = "9" -> 9

\* String(tf).toLowerCase(), over the letters the labels are written with
toLowerCase(tf) ==
    [k \in 1..Len(tf) |->
        CASE tf[k] = "M" -> "m" [] tf[k] = "H" -> "h" [] tf[k] = "D" -> "d"
          [] tf[k] = "W" -> "w" [] OTHER -> tf[k]]

\* parseInt(match[1], 10) of a run of digits
RECURSIVE parseInt(_)
parseInt(digits) ==
    IF digits = <<>> THEN 0
    ELSE parseInt(SubSeq(digits, 1, Len(digits) - 1)) * 10 + DigitValue(digits[Len(digits)])

\* /^(\d+)(m|h|d)$/
TimeframeMatches(s) ==
    /\ Len(s) >= 2
    /\ s[Len(s)] \in {"m", "h", "d"}
    /\ \A k \in 1..(Len(s) - 1) : s[k] \in Digits

\* The digits the pattern captures: the longest run of digits before the unit.
RECURSIVE CapturedDigits(_)
CapturedDigits(s) ==
    IF Len(s) < 2 \/ s[Len(s) - 1] \notin Digits THEN <<>>
    ELSE Append(CapturedDigits(SubSeq(s, 1, Len(s) - 1)), s[Len(s) - 1])

timeframeToMs(tf) ==
    LET s == toLowerCase(tf)
    IN IF ~TimeframeMatches(s) THEN Throw("Invalid timeframe")
       ELSE LET n    == parseInt(CapturedDigits(s))
                unit == s[Len(s)]
            IN Return(CASE unit = "m" -> n * MinuteMs
                        [] unit = "h" -> n * HourMs
                        [] unit = "d" -> n * DayMs)

\* variant: every candle is a bucket of its own
BucketOfItsOwn(ts, interval) == ts

\* Math.floor(ts / interval) * interval
Bucket(ts, interval) == (ts \div interval) * interval

\* Array.from(grouped.keys()).sort((a, b) => a - b)
RECURSIVE SortAscending(_)
SortAscending(keys) ==
    IF keys = {} THEN <<>>
    ELSE LET least == CHOOSE a \in keys : \A b \in keys : a <= b
         IN <<least>> \o SortAscending(keys \ {least})

\* group.reduce((m, v) => Math.max(m, v.high), -Infinity), group not empty
RECURSIVE MaxHigh(_)
MaxHigh(group) ==
    IF Len(group) = 1 THEN group[1].high
    ELSE LET m == MaxHigh(SubSeq(group, 1, Len(group) - 1))
             v == group[Len(group)]
         IN IF v.high > m THEN v.high ELSE m

\* group.reduce((m, v) => Math.min(m, v.low), Infinity), group not empty
RECURSIVE MinLow(_)
MinLow(group) ==
    IF Len(group) = 1 THEN group[1].low
    ELSE LET m == MinLow(SubSeq(group, 1, Len(group) - 1))
             v == group[Len(group)]
         IN IF v.low < m THEN v.low ELSE m

\* group.reduce((s, v) => s + (v.volume || 0), 0)
RECURSIVE SumVolume(_)
SumVolume(group) ==
    IF group = <<>> THEN 0
    ELSE SumVolume(SubSeq(group, 1, Len(group) - 1)) + group[Len(group)].volume

\* variant: the aggregated candle closes where its first candle closed
AggregateGroupFirstClose(key, group) ==
    [timestamp |-> key,
     open      |-> group[1].open,
     high      |-> MaxHigh(group),
     low       |-> MinLow(group),
     close     |-> group[1].close,
     volume    |-> SumVolume(group)]

\* The candle of one bucket, from its candles in input order.
AggregateGroup(key, group) ==
    [timestamp |-> key,
     open      |-> group[1].open,
     high      |-> MaxHigh(group),
     low       |-> MinLow(group),
     close     |-> group[Len(group)].close,
     volume    |-> SumVolume(group)]

\* variant: the label is validated before the candles are looked at
aggregateCandlesValidatingFirst(candles, timeframe) ==
    LET t == timeframeToMs(timeframe)
    IN IF ~t.ok THEN t
       ELSE IF Len(candles) = 0 THEN Return(<<>>)
       ELSE LET interval   == t.value
                sortedKeys == SortAscending({Bucket(candles[k].timestamp, interval) : k \in 1..Len(candles)})
                grouped(key) == SelectSeq(candles, LAMBDA c : Bucket(c.timestamp, interval) = key)
            IN Return([k \in 1..Len(sortedKeys) |-> AggregateGroup(sortedKeys[k], grouped(sortedKeys[k]))])

\* aggregateCandles: an empty array is returned before the label is looked at.
aggregateCandles(candles, timeframe) ==
    IF Len(candles) = 0 THEN Return(<<>>)
    ELSE LET t == timeframeToMs(timeframe)
         IN IF ~t.ok THEN t
            ELSE LET interval   == t.value
                     sortedKeys == SortAscending({Bucket(candles[k].timestamp, interval) : k \in 1..Len(candles)})
                     grouped(key) == SelectSeq(candles, LAMBDA c : Bucket(c.timestamp, interval) = key)
                 IN Return([k \in 1..Len(sortedKeys) |-> AggregateGroup(sortedKeys[k], grouped(sortedKeys[k]))])

\* An object keyed by timeframe is the sequence of its entries in key order.
Keys(obj) == [k \in 1..Len(obj) |-> obj[k].tf]

HasKey(obj, tf) == \E k \in 1..Len(obj) : obj[k].tf = tf

\* obj[tf]
Get(obj, tf) == obj[CHOOSE k \in 1..Len(obj) : obj[k].tf = tf].candles

\* out[tf] = value: a key the object has keeps its place
SetKey(obj, tf, value) ==
    IF HasKey(obj, tf)
    THEN [k \in 1..Len(obj) |-> IF obj[k].tf = tf THEN [tf |-> tf, candles |-> value] ELSE obj[k]]
    ELSE Append(obj, [tf |-> tf, candles |-> value])

\* createMultiTimeframeData: the labels in turn, up to the first that throws
RECURSIVE createMultiTimeframeData(_, _)
createMultiTimeframeData(rawCandles, tfs) ==
    IF tfs = <<>> THEN Return(<<>>)
    ELSE LET out == createMultiTimeframeData(rawCandles, SubSeq(tfs, 1, Len(tfs) - 1))
             tf  == tfs[Len(tfs)]
             agg == aggregateCandles(rawCandles, tf)
         IN IF ~out.ok THEN out
            ELSE IF ~agg.ok THEN agg
            ELSE Return(SetKey(out.value, tf, agg.value))

\* ------------------------------------------------------- run(): the dataset
\* variant: the longer duration takes over
TakesOverLonger(ms, minMs) == ms > minMs

\* if (ms < minMs)
TakesOver(ms, minMs) == ms < minMs

\* The loop over the keys: a label that does not parse is passed over, a
\* strictly smaller duration takes over.
RECURSIVE PrimaryTimeframe(_, _, _, _)
PrimaryTimeframe(keys, k, minMs, primaryTf) ==
    IF k > Len(keys) THEN primaryTf
    ELSE LET t == timeframeToMs(keys[k])
         IN IF t.ok /\ TakesOver(t.value, minMs)
            THEN PrimaryTimeframe(keys, k + 1, t.value, keys[k])
            ELSE PrimaryTimeframe(keys, k + 1, minMs, primaryTf)

\* The data argument of run(): an array of candles, or an object keyed by
\* timeframe.
RawData(raw) == [isMapping |-> FALSE, raw |-> raw, mapping |-> <<>>]

\* run(), up to the loop: the dataset and the primary series, or a throw.
RunPrologue(eng, data) ==
    IF data.isMapping
    THEN LET keys == Keys(data.mapping)
         IN IF Len(keys) = 0 THEN Throw("No timeframe data provided")
            ELSE LET first == timeframeToMs(keys[1])
                 IN IF ~first.ok THEN first
                    ELSE LET primaryTf == PrimaryTimeframe(keys, 1, first.value, keys[1])
                         IN Return([candlesByTf   |-> data.mapping,
                                    primarySeries |-> Get(data.mapping, primaryTf)])
    ELSE LET created == createMultiTimeframeData(data.raw, eng.timeframes)
         IN IF ~created.ok THEN created
            ELSE Return([candlesByTf |-> created.value, primarySeries |-> data.raw])

\* variant: the cursor stops at a candle that starts at the current time
StartedByStrictly(aggregated, currentTs) == aggregated.timestamp < currentTs

\* arr[idx].timestamp <= currentTs
StartedBy(aggregated, currentTs) == aggregated.timestamp <= currentTs

\* while (idx < arr.length && arr[idx].timestamp <= currentTs) idx++
RECURSIVE AdvanceCursor(_, _, _)
AdvanceCursor(arr, idx, currentTs) ==
    IF idx < Len(arr) /\ StartedBy(arr[idx + 1], currentTs)
    THEN AdvanceCursor(arr, idx + 1, currentTs)
    ELSE idx

\* The cursors after the step of a candle.
AdvanceCursors(byTf, indices, candle) ==
    [k \in 1..Len(byTf) |-> AdvanceCursor(byTf[k].candles, indices[k], candle.timestamp)]

\* ctxCandlesByTf[tf] = arr.slice(0, idx)
ContextViews(byTf, indices) ==
    [k \in 1..Len(byTf) |-> [tf |-> byTf[k].tf, candles |-> SubSeq(byTf[k].candles, 1, indices[k])]]

\* variant: the strategy is handed the whole primary series
ContextWholeSeries(series, index, prm, bag, views) ==
    [candles       |-> series,
     index         |-> index,
     params        |-> prm,
     state         |-> bag,
     candlesByTf   |-> views,
     currentCandle |-> series[index + 1]]

\* ctx: candles is primarySeries.slice(0, i + 1)
Context(series, index, prm, bag, views) ==
    [candles       |-> SubSeq(series, 1, index + 1),
     index         |-> index,
     params        |-> prm,
     state         |-> bag,
     candlesByTf   |-> views,
     currentCandle |-> series[index + 1]]

\* ------------------------------------------------------- order arithmetic
\* variant: the action is read without regard to case
DestructureCaseBlind(r) ==
    IF r.outcome = "null"
    THEN [action |-> "HOLD", hasSize |-> FALSE, size |-> 0]
    ELSE [action |-> IF r.signal = "buy" THEN "BUY" ELSE r.signal,
          hasSize |-> r.hasSize, size |-> r.size]

\* const { signal: action, size, meta } = signal || { signal: 'HOLD' };
Destructure(r) ==
    IF r.outcome = "null"
    THEN [action |-> "HOLD", hasSize |-> FALSE, size |-> 0]
    ELSE [action |-> r.signal, hasSize |-> r.hasSize, size |-> r.size]

\* size || 1.0
TradeSize(sig) ==
    IF sig.hasSize /\ sig.size # 0 THEN sig.size ELSE 1

\* variant: the long fill forgets the slippage
LongEntryPriceNoSlippage(close, slippage) == close * SlipDen

\* candle.close * (1 + this.slippage), in 1/SlipDen
LongEntryPrice(close, slippage) == close * (SlipDen + slippage)

\* variant: the short fill moves the price up, as the long fill does
ShortEntryPriceUp(close, slippage) == close * (SlipDen + slippage)

\* candle.close * (1 - this.slippage), in 1/SlipDen
ShortEntryPrice(close, slippage) == close * (SlipDen - slippage)

\* candle.close * (1 - this.slippage), in 1/SlipDen
ExitPrice(close, slippage) == close * (SlipDen - slippage)

\* cost = entryPrice * tradeSize; commissionCost = cost * commission;
\* totalCost = cost + commissionCost, in 1/MoneyUnit
TotalCost(entryPrice, tradeSize, commission) ==
    LET cost == entryPrice * tradeSize
        commissionCost == cost * commission
    IN  cost * CommDen + commissionCost

\* revenue = exitPrice * size; commissionCost = revenue * commission;
\* netRevenue = revenue - commissionCost, in 1/MoneyUnit
NetRevenue(exitPrice, size, commission) ==
    LET revenue == exitPrice * size
        commissionCost == revenue * commission
    IN  revenue * CommDen - commissionCost

\* variant: the LONG formula for both sides
PnlLongOnly(side, netRevenue, totalCost) == netRevenue - totalCost

\* pnl of a closed position
Pnl(side, netRevenue, totalCost) ==
    IF side = "LONG" THEN netRevenue - totalCost ELSE totalCost - netRevenue

\* (pnl / position.totalCost) * 100 as the fraction num/den
PnlPercent(pnl, totalCost) == [num |-> pnl * 100, den |-> totalCost]

\* variant: no funding check
FundedAlways(cap, totalCost) == TRUE

\* capital >= totalCost
Funded(cap, totalCost) == cap >= totalCost

\* The position object of an open.
NewPosition(side, tradeSize, entryPrice, candle, idx, totalCost) ==
    [side |-> side, size |-> tradeSize, entryPrice |-> entryPrice,
     entryTime |-> candle.timestamp, entryIndex |-> idx, totalCost |-> totalCost]

\* variant: a 1-based exitIndex
NewTradeOneBased(pos, candle, idx, exitPrice, pnl) ==
    [entryTime |-> pos.entryTime, exitTime |-> candle.timestamp,
     side |-> pos.side, size |-> pos.size,
     entryPrice |-> pos.entryPrice, exitPrice |-> exitPrice,
     pnl |-> pnl, pnlPercent |-> PnlPercent(pnl, pos.totalCost),
     entryIndex |-> pos.entryIndex, exitIndex |-> idx + 1]

\* The trade object of a close at candle `candle`, index idx.
NewTrade(pos, candle, idx, exitPrice, pnl) ==
    [entryTime |-> pos.entryTime, exitTime |-> candle.timestamp,
     side |-> pos.side, size |-> pos.size,
     entryPrice |-> pos.entryPrice, exitPrice |-> exitPrice,
     pnl |-> pnl, pnlPercent |-> PnlPercent(pnl, pos.totalCost),
     entryIndex |-> pos.entryIndex, exitIndex |-> idx]

\* ------------------------------------------------ position management
\* Each branch maps (capital, position, trades) to their values after it.
Book(cap, pos, trs) == [capital |-> cap, position |-> pos, trades |-> trs]

\* if (action === 'BUY' && !position) { ... }
OpenLong(sig, candle, idx, cap, pos, trs) ==
    LET tradeSize == TradeSize(sig)
        entryPrice == LongEntryPrice(candle.close, engine.slippage)
        totalCost == TotalCost(entryPrice, tradeSize, engine.commission)
    IN  IF Funded(cap, totalCost)
        THEN Book(cap - totalCost,
                  NewPosition("LONG", tradeSize, entryPrice, candle, idx, totalCost),
                  trs)
        ELSE Book(cap, pos, trs)

\* else if (action === 'SELL' && position) { ... }
ClosePosition(candle, idx, cap, pos, trs) ==
    LET exitPrice == ExitPrice(candle.close, engine.slippage)
        netRevenue == NetRevenue(exitPrice, pos.size, engine.commission)
        pnl == Pnl(pos.side, netRevenue, pos.totalCost)
    IN  Book(cap + netRevenue, NoPosition,
             Append(trs, NewTrade(pos, candle, idx, exitPrice, pnl)))

\* else if (action === 'SELL' && !position) { ... }
OpenShort(sig, candle, idx, cap, pos, trs) ==
    LET tradeSize == TradeSize(sig)
        entryPrice == ShortEntryPrice(candle.close, engine.slippage)
        totalCost == TotalCost(entryPrice, tradeSize, engine.commission)
    IN  IF Funded(cap, totalCost)
        THEN Book(cap - totalCost,
                  NewPosition("SHORT", tradeSize, entryPrice, candle, idx, totalCost),
                  trs)
        ELSE Book(cap, pos, trs)

\* variant: BUY opens whether or not a position is open
IsOpenLongAnyState(action, pos) == action = "BUY"

\* variant: every action but SELL opens a long
IsOpenLongUnlessSell(action, pos) == action # "SELL" /\ pos = NoPosition

\* action === 'BUY' && !position
IsOpenLong(action, pos) == action = "BUY" /\ pos = NoPosition

\* variant: BUY covers an open SHORT
IsCloseOrCover(action, pos) ==
    /\ pos # NoPosition
    /\ (action = "SELL" \/ (action = "BUY" /\ pos.side = "SHORT"))

\* action === 'SELL' && position
IsClose(action, pos) == action = "SELL" /\ pos # NoPosition

\* action === 'SELL' && !position
IsOpenShort(action, pos) == action = "SELL" /\ pos = NoPosition

\* The if / else-if chain on the destructured signal.
HandleSignal(sig, candle, idx, cap, pos, trs) ==
    IF IsOpenLong(sig.action, pos) THEN OpenLong(sig, candle, idx, cap, pos, trs)
    ELSE IF IsClose(sig.action, pos) THEN ClosePosition(candle, idx, cap, pos, trs)
    ELSE IF IsOpenShort(sig.action, pos) THEN OpenShort(sig, candle, idx, cap, pos, trs)
    ELSE Book(cap, pos, trs)

\* variant: the catch block drops the open position
TryBlockCatchClears(r, candle, idx, cap, pos, trs) ==
    IF r.outcome = "throw"
    THEN Book(cap, NoPosition, trs)
    ELSE HandleSignal(Destructure(r), candle, idx, cap, pos, trs)

\* The body of the try block for one strategy outcome: a throwing strategy
\* leaves everything as it was; otherwise the signal is handled.
TryBlock(r, candle, idx, cap, pos, trs) ==
    IF r.outcome = "throw"
    THEN Book(cap, pos, trs)
    ELSE HandleSignal(Destructure(r), candle, idx, cap, pos, trs)

\* What the catch block logs for the step.  After the position management the
\* try block evaluates equityCurve.push(...); run() declares no equityCurve,
\* so that statement raises a ReferenceError, caught like a strategy error.
CaughtError(r) ==
    IF r.outcome = "throw" THEN "strategy error" ELSE "equityCurve is not defined"

\* variant: no force-close after the loop
\* if (position && primarySeries.length > 0) { ... } over the series `series`
CloseAtEnd(series, cap, pos, trs) ==
    IF pos # NoPosition /\ Len(series) > 0
    THEN LET lastCandle == series[Len(series)]
             exitPrice == ExitPrice(lastCandle.close, engine.slippage)
             netRevenue == NetRevenue(exitPrice, pos.size, engine.commission)
             pnl == Pnl(pos.side, netRevenue, pos.totalCost)
         IN  Book(cap + netRevenue, pos,
                  Append(trs, NewTrade(pos, lastCandle, Len(series) - 1, exitPrice, pnl)))
    ELSE Book(cap, pos, trs)

EndOfRunCloseSkipped(cap, pos, trs) == Book(cap, pos, trs)

\* Close any open position at the end.
EndOfRunClose(cap, pos, trs) == CloseAtEnd(primarySeries, cap, pos, trs)

\* ------------------------------------------------------ calculateMetrics
\* round(r / den * 10^k) for 0 <= r < den, by long division, halves upward
RECURSIVE Frac(_, _, _)
Frac(r, den, k) ==
    IF k = 0
    THEN IF 2 * r >= den THEN 1 ELSE 0
    ELSE ((r * 10) \div den) * 10^(k - 1) + Frac((r * 10) % den, den, k - 1)

\* parseFloat((num / den * 10^(k-2)).toFixed(2)) in hundredths, den > 0:
\* num/den rounded to k decimal digits, half away from zero, as an integer
ToFixed(num, den, k) ==
    LET a == IF num < 0 THEN -num ELSE num
        n == (a \div den) * 10^k + Frac(a % den, den, k)
    IN  IF num < 0 THEN -n ELSE n

\* trades.reduce((sum, t) => sum + t.pnl, 0)
RECURSIVE SumPnl(_)
SumPnl(ts) ==
    IF ts = <<>> THEN 0 ELSE ts[1].pnl + SumPnl(Tail(ts))

\* variant: a trade that broke even counts as a win
WinningTradesOrEven(ts) == SelectSeq(ts, LAMBDA t : t.pnl >= 0)

\* trades.filter(t => t.pnl > 0)
WinningTrades(ts) == SelectSeq(ts, LAMBDA t : t.pnl > 0)

\* trades.filter(t => t.pnl < 0)
LosingTrades(ts) == SelectSeq(ts, LAMBDA t : t.pnl < 0)

Abs(x) == IF x < 0 THEN -x ELSE x

\* The drawdown loop: [peak, maxDrawdown, and the drawdown/peak pair that
\* maxDrawdownPercent was last computed from]
RECURSIVE DrawdownWalk(_, _)
DrawdownWalk(equityCurve, acc) ==
    IF equityCurve = <<>> THEN acc
    ELSE LET point == equityCurve[1]
             peak == IF point.equity > acc.peak THEN point.equity ELSE acc.peak
             drawdown == peak - point.equity
         IN  DrawdownWalk(Tail(equityCurve),
                IF drawdown > acc.maxDrawdown
                THEN [peak |-> peak, maxDrawdown |-> drawdown,
                      pctNum |-> drawdown, pctDen |-> peak]
                ELSE [acc EXCEPT !.peak = peak])

\* variant: without a loss the profit factor is reported as 0
ProfitFactorNoLossIsZero(grossProfit, grossLoss) ==
    IF grossLoss > 0 THEN [infinite |-> FALSE, value |-> ToFixed(grossProfit, grossLoss, 2)]
    ELSE [infinite |-> FALSE, value |-> 0]

\* grossLoss > 0 ? grossProfit / grossLoss : grossProfit > 0 ? Infinity : 0
ProfitFactor(grossProfit, grossLoss) ==
    IF grossLoss > 0 THEN [infinite |-> FALSE, value |-> ToFixed(grossProfit, grossLoss, 2)]
    ELSE IF grossProfit > 0 THEN [infinite |-> TRUE, value |-> 0]
    ELSE [infinite |-> FALSE, value |-> 0]

\* The Sharpe ratio of an equity series with at most two points.  With at
\* most one point returns is empty, avgReturn = 0/0 is NaN, stdDev is NaN, and
\* NaN > 0 is false; with two points the one return is its own mean, the
\* variance is 0 and stdDev > 0 is false.
SharpeRatio(equityCurve) ==
    CASE Len(equityCurve) <= 1 -> 0
      [] Len(equityCurve) = 2 -> 0

ZeroMetrics ==
    [totalTrades |-> 0, wins |-> 0, losses |-> 0, winRate |-> 0, accuracy |-> 0,
     netPnL |-> 0, roi |-> 0, maxDrawdown |-> 0, maxDrawdownPercent |-> 0,
     expectancy |-> 0, averageWin |-> 0, averageLoss |-> 0,
     profitFactor |-> [infinite |-> FALSE, value |-> 0], sharpeRatio |-> 0]

\* variant: the walk starts without a peak
DrawdownStartNoPeak(initialCapital) ==
    [peak |-> 0, maxDrawdown |-> 0, pctNum |-> 0, pctDen |-> 1]

\* let peak = initialCapital; let maxDrawdown = 0; let maxDrawdownPercent = 0
DrawdownStart(initialCapital) ==
    [peak |-> initialCapital, maxDrawdown |-> 0, pctNum |-> 0, pctDen |-> 1]

\* calculateMetrics(trades, equityCurve, initialCapital); initialCapital in
\* money units.  Every number of the report is in hundredths (toFixed(2)),
\* the counts excepted.
calculateMetrics(ts, equityCurve, initialCapital) ==
    IF Len(ts) = 0 THEN ZeroMetrics
    ELSE
    LET wins == Len(WinningTrades(ts))
        losses == Len(LosingTrades(ts))
        totalPnL == SumPnl(ts)
        grossProfit == SumPnl(WinningTrades(ts))
        grossLoss == Abs(SumPnl(LosingTrades(ts)))
        lossDen == IF losses > 0 THEN losses ELSE 1
        \* (winRate/100) * averageWin - ((100 - winRate)/100) * averageLoss
        \*   = grossProfit/len - (len - wins) * grossLoss / (len * losses)
        expectancyNum == grossProfit * lossDen - (Len(ts) - wins) * grossLoss
        dd == DrawdownWalk(equityCurve, DrawdownStart(initialCapital))
    IN  [totalTrades |-> Len(ts),
         wins |-> wins,
         losses |-> losses,
         winRate |-> ToFixed(wins, Len(ts), 4),
         accuracy |-> ToFixed(wins, Len(ts), 4),
         netPnL |-> ToFixed(totalPnL, MoneyUnit, 2),
         roi |-> ToFixed(totalPnL, initialCapital, 4),
         maxDrawdown |-> ToFixed(dd.maxDrawdown, MoneyUnit, 2),
         maxDrawdownPercent |-> ToFixed(dd.pctNum, dd.pctDen, 4),
         expectancy |-> ToFixed(expectancyNum, Len(ts) * lossDen * MoneyUnit, 2),
         averageWin |-> IF wins > 0 THEN ToFixed(grossProfit, wins * MoneyUnit, 2) ELSE 0,
         averageLoss |-> IF losses > 0 THEN ToFixed(grossLoss, losses * MoneyUnit, 2) ELSE 0,
         profitFactor |-> ProfitFactor(grossProfit, grossLoss),
         sharpeRatio |-> SharpeRatio(equityCurve)]

\* variant: an equity series with one point, of no equity
MetricsEquityCurveOnePoint == <<[timestamp |-> 0, equity |-> 0]>>

\* The equity series run() hands to calculateMetrics: the literal [].
MetricsEquityCurve == <<>>

NoResult == [returned |-> FALSE]

\* ---------------------------------------------------------- strategy code
\* Strategy code, by what it does when it is loaded and when it is called.
StrategyCode(atLoad, loadRequire, callRequire, writesState, setsClose, neverReturns, usesHostFunction) ==
    [atLoad           |-> atLoad,
     loadRequire      |-> loadRequire,
     callRequire      |-> callRequire,
     writesState      |-> writesState,
     setsClose        |-> setsClose,
     neverReturns     |-> neverReturns,
     usesHostFunction |-> usesHostFunction]

\* Code that exports a function which reads its context and returns.
PlainStrategy == StrategyCode("exports function", "none", "none", FALSE, FALSE, FALSE, FALSE)

\* The require of the sandbox: const allowed = ['crypto'].
SandboxRequire(module) ==
    IF module \in {"crypto"} THEN Return(module)
    ELSE Throw("Module is not allowed in strategy code")

\* The sandbox object: what each of its properties is.  module, exports,
\* require and console are created by the engine, outside the context.
Sandbox ==
    [module      |-> "host object",
     exports     |-> "host object",
     require     |-> "host function",
     console     |-> "host object",
     setTimeout  |-> "undefined",
     setInterval |-> "undefined",
     process     |-> "undefined",
     Buffer      |-> "undefined",
     __dirname   |-> "undefined",
     __filename  |-> "undefined"]

\* The constructor of an object or function of the host is a function of the
\* host, and the constructor of that is the host's Function: code that holds
\* one such value can make functions that run outside the context.
HostFunctionReachable ==
    \E name \in DOMAIN Sandbox : Sandbox[name] \in {"host object", "host function"}

\* createStrategyFunction: the code is run once, with a timeout; whatever it
\* throws, and an export that is no function, is rethrown as a strategy code
\* error.
createStrategyFunction(code) ==
    IF code.loadRequire # "none" /\ ~SandboxRequire(code.loadRequire).ok
    THEN Throw("Strategy code error")
    ELSE IF code.atLoad # "exports function" THEN Throw("Strategy code error")
    ELSE Return(code)

PendingCall == [outcome |-> "pending", signal |-> "undefined", hasSize |-> FALSE, size |-> 0]

\* What one call of the strategy function can do: a require that is refused
\* throws out of the call; a call may never return.
StrategyOutcomes(code, prm) ==
    IF code.callRequire # "none" /\ ~SandboxRequire(code.callRequire).ok
    THEN {[outcome |-> "throw", signal |-> "undefined", hasSize |-> FALSE, size |-> 0]}
    ELSE StrategyResults(prm) \cup (IF code.neverReturns THEN {PendingCall} ELSE {})

\* What a call does besides returning: write to ctx.state or not, set
\* ctx.currentCandle.close to 1 or leave it (close 0: left alone).
SideEffects(code) ==
    {[write |-> w, close |-> c] :
        w \in (IF code.writesState THEN BOOLEAN ELSE {FALSE}),
        c \in (IF code.setsClose THEN {0, 1} ELSE {0})}

\* What of the host a call gets hold of: the module its require returns, and
\* the globals of the host (process, timers, Buffer) that a function made by
\* the host's Function constructor sees.
Obtained(code) ==
    (IF code.callRequire # "none" /\ SandboxRequire(code.callRequire).ok
     THEN {SandboxRequire(code.callRequire).value} ELSE {})
    \cup (IF code.usesHostFunction /\ HostFunctionReachable
          THEN {"process", "setTimeout", "setInterval", "Buffer"} ELSE {})

\* variant: the bag is emptied when the strategy throws
BagAfterClearedOnThrow(bag, r, effect, index) ==
    IF r.outcome = "throw" THEN {}
    ELSE IF effect.write THEN bag \cup {index} ELSE bag

\* The state bag after a call: the engine does nothing to it.
BagAfter(bag, r, effect, index) ==
    IF effect.write THEN bag \cup {index} ELSE bag

\* The candle of the step after the call: ctx.currentCandle is the object the
\* engine goes on to read.
CandleAfter(candle, effect) ==
    IF effect.close = 0 THEN candle ELSE [candle EXCEPT !.close = effect.close]

\* The key of the primary series in a mapping.
PrimaryKey(data) ==
    LET keys == Keys(data.mapping)
    IN PrimaryTimeframe(keys, 1, timeframeToMs(keys[1]).value, keys[1])

\* The dataset after the call: with a mapping the primary series is one of
\* its arrays, so the candle of the step is a candle of the dataset.
DatasetAfter(byTf, data, index, candle) ==
    IF ~data.isMapping THEN byTf
    ELSE [k \in 1..Len(byTf) |->
            IF byTf[k].tf = PrimaryKey(data)
            THEN [byTf[k] EXCEPT !.candles[index + 1] = candle]
            ELSE byTf[k]]

\* ------------------------------------------------------------------ actions
RunCall(strategyCode, data) == [op |-> "run", strategyCode |-> strategyCode, data |-> data]

\* A run that is about to start: nothing set up, nothing recorded.
\* No broker and no live trading session.
NoLiveTrading ==
    /\ broker = [initialCapital |-> 0]
    /\ sessionObjects = <<>>
    /\ activeSessions = {}
    /\ timers = {}
    /\ ticks = {}

Fresh ==
    /\ candlesByTf = <<>>
    /\ primarySeries = <<>>
    /\ tfIndices = <<>>
    /\ ctx = [index |-> -1]
    /\ state = {}
    /\ reached = {}
    /\ equityPoints = <<>>
    /\ pc = "start"
    /\ i = 0
    /\ capital = engine.initialCapital * MoneyUnit
    /\ position = NoPosition
    /\ trades = <<>>
    /\ signals = <<>>
    /\ errorLog = <<>>
    /\ result = NoResult

\* params: the order size the strategy puts into its BUY and SELL signals,
\* or none (the signal then has no size field).
Init ==
    /\ engine \in {BacktestEngine(o) : o \in EngineOptions}
    /\ call \in {RunCall(PlainStrategy, RawData(raw)) : raw \in AllSeries}
    /\ params \in {[hasSize |-> FALSE, size |-> 0]}
                 \cup {[hasSize |-> TRUE, size |-> s] : s \in 0..MaxSize}
    /\ runs = <<>>
    /\ NoLiveTrading
    /\ Fresh

\* run() up to its loop: the strategy function, the dataset, the primary
\* series, the cursors.
StartRun ==
    /\ pc = "start"
    /\ call.op = "run"
    /\ LET strategy == createStrategyFunction(call.strategyCode)
           prologue == RunPrologue(engine, call.data)
       IN  IF ~strategy.ok
           THEN /\ pc' = "failed"
                /\ result' = [returned |-> FALSE, error |-> strategy.error]
                /\ UNCHANGED <<candlesByTf, primarySeries, tfIndices>>
           ELSE IF prologue.ok
           THEN /\ candlesByTf' = prologue.value.candlesByTf
                /\ primarySeries' = prologue.value.primarySeries
                /\ tfIndices' = [k \in 1..Len(prologue.value.candlesByTf) |-> 0]
                /\ pc' = "loop"
                /\ result' = result
           ELSE /\ pc' = "failed"
                /\ result' = [returned |-> FALSE, error |-> prologue.error]
                /\ UNCHANGED <<candlesByTf, primarySeries, tfIndices>>
    /\ UNCHANGED <<broker, sessionObjects, activeSessions, timers, ticks, call, engine, runs, ctx, state, reached, equityPoints, params, i, capital,
                   position, trades, signals, errorLog>>

\* One iteration of the for loop: the strategy call and what follows it.  A
\* call that never returns leaves run() at its await.
LoopStep ==
    /\ pc = "loop"
    /\ i < Len(primarySeries)
    /\ \E r \in StrategyOutcomes(call.strategyCode, params), effect \in SideEffects(call.strategyCode) :
         LET shown   == primarySeries[i + 1]
             cursors == AdvanceCursors(candlesByTf, tfIndices, shown)
             candle  == CandleAfter(shown, effect)
             after   == TryBlock(r, candle, i, capital, position, trades)
         IN  /\ tfIndices' = cursors
             /\ ctx' = Context(primarySeries, i, params, state, ContextViews(candlesByTf, cursors))
             /\ IF r = PendingCall
                THEN /\ pc' = "awaiting"
                     /\ UNCHANGED <<candlesByTf, primarySeries, state, reached, i, capital,
                                    position, trades, signals, errorLog>>
                ELSE /\ primarySeries' = [primarySeries EXCEPT ![i + 1] = candle]
                     /\ candlesByTf' = DatasetAfter(candlesByTf, call.data, i, candle)
                     /\ state' = BagAfter(state, r, effect, i)
                     /\ reached' = IF r.outcome = "throw" THEN reached
                                   ELSE reached \cup Obtained(call.strategyCode)
                     /\ capital' = after.capital
                     /\ position' = after.position
                     /\ trades' = after.trades
                     /\ signals' = Append(signals, r)
                     /\ errorLog' = Append(errorLog, [index |-> i, message |-> CaughtError(r)])
                     /\ i' = i + 1
                     /\ pc' = pc
    /\ UNCHANGED <<broker, sessionObjects, activeSessions, timers, ticks, call, engine, runs, equityPoints, params, result>>

\* After the loop: force-close, metrics, return.
EndOfRun ==
    /\ pc = "loop"
    /\ i >= Len(primarySeries)
    /\ LET after == EndOfRunClose(capital, position, trades)
       IN  /\ capital' = after.capital
           /\ position' = after.position
           /\ trades' = after.trades
           /\ result' = [returned |-> TRUE, trades |-> after.trades,
                         metrics |-> calculateMetrics(after.trades, MetricsEquityCurve,
                                                      engine.initialCapital * MoneyUnit),
                         finalCapital |-> after.capital]
    /\ pc' = "done"
    /\ UNCHANGED <<broker, sessionObjects, activeSessions, timers, ticks, call, engine, runs, candlesByTf, primarySeries, tfIndices, ctx, state, reached,
                   equityPoints, params, i, signals, errorLog>>

Next == StartRun \/ LoopStep \/ EndOfRun

Spec == Init /\ [][Next]_vars

\* ------------------------------------------- aggregateCandles on its own
\* Candles on a grid of minutes, in three shapes: rising, falling, and a
\* spike without volume.
Ticks == 0..MaxTick

\* Candle arrays in any order of time, the empty one included.
CandleArrays ==
    LET CandleShapes ==
            {[open |-> 1, high |-> 2, low |-> 1, close |-> 2, volume |-> 1],
             [open |-> 2, high |-> 2, low |-> 1, close |-> 1, volume |-> 2],
             [open |-> 1, high |-> 3, low |-> 0, close |-> 1, volume |-> 0]}
        ShapedCandles ==
            {[timestamp |-> t * MinuteMs, open |-> sh.open, high |-> sh.high,
              low |-> sh.low, close |-> sh.close, volume |-> sh.volume] :
                t \in Ticks, sh \in CandleShapes}
    IN UNION {[1..n -> ShapedCandles] : n \in 0..MaxLen}

\* Labels: 1m, 2m, 1H, and four that are no timeframe: 1w, m, x2m, the empty
\* string.
InitAgg ==
    /\ engine = BacktestEngine(CHOOSE o \in EngineOptions : o.commission = 0)
    /\ call \in {[op |-> "aggregateCandles", candles |-> cs, timeframe |-> tf] :
                    cs \in CandleArrays,
                    tf \in {<<"1", "m">>, <<"2", "m">>, <<"1", "H">>, <<"1", "w">>, <<"m">>,
                            <<"x", "2", "m">>, <<>>}}
    /\ params = [hasSize |-> FALSE, size |-> 0]
    /\ runs = <<>>
    /\ NoLiveTrading
    /\ Fresh

\* One call of aggregateCandles: its return value, or its error.
AggregateCandles ==
    /\ pc = "start"
    /\ call.op = "aggregateCandles"
    /\ LET out == aggregateCandles(call.candles, call.timeframe)
       IN  result' = IF out.ok THEN [returned |-> TRUE, value |-> out.value]
                     ELSE [returned |-> FALSE, error |-> out.error]
    /\ pc' = "done"
    /\ UNCHANGED <<broker, sessionObjects, activeSessions, timers, ticks, call, engine, runs, candlesByTf, primarySeries, tfIndices, ctx, state, reached,
                   equityPoints, params, i, capital, position, trades, signals, errorLog>>

SpecAgg == InitAgg /\ [][AggregateCandles]_vars

\* ------------------------------------------------ run() over strategy code
\* Strategy code: plain; writing to the state bag; setting the close of the
\* current candle; never returning from a call; requiring crypto or fs in a
\* call; using the Function constructor of the host; and code that fails when
\* it is loaded: by requiring fs, by throwing or running into the timeout, by
\* exporting no function.
StrategyCodes ==
    {PlainStrategy,
     StrategyCode("exports function", "none", "none", TRUE, FALSE, FALSE, FALSE),
     StrategyCode("exports function", "none", "none", FALSE, TRUE, FALSE, FALSE),
     StrategyCode("exports function", "none", "none", FALSE, FALSE, TRUE, FALSE),
     StrategyCode("exports function", "crypto", "crypto", FALSE, FALSE, FALSE, FALSE),
     StrategyCode("exports function", "none", "fs", FALSE, FALSE, FALSE, FALSE),
     StrategyCode("exports function", "none", "none", FALSE, FALSE, FALSE, TRUE),
     StrategyCode("exports function", "fs", "none", FALSE, FALSE, FALSE, FALSE),
     StrategyCode("throws", "none", "none", FALSE, FALSE, FALSE, FALSE),
     StrategyCode("exports nothing", "none", "none", FALSE, FALSE, FALSE, FALSE)}

\* Hourly candles that close at 2.
StrategySeries == {[k \in 1..n |-> FlatCandle((k - 1) * HourMs, 2)] : n \in 0..MaxLen}

InitStrategy ==
    /\ engine = BacktestEngine(CHOOSE o \in EngineOptions : o.commission = 0)
    /\ call \in {RunCall(code, RawData(raw)) : code \in StrategyCodes, raw \in StrategySeries}
    /\ params = [hasSize |-> FALSE, size |-> 0]
    /\ runs = <<>>
    /\ NoLiveTrading
    /\ Fresh

SpecStrategy == InitStrategy /\ [][Next]_vars

\* run() with a strategy whose calls may never return.
InitNeverReturns ==
    /\ engine = BacktestEngine(CHOOSE o \in EngineOptions : o.commission = 0)
    /\ call \in {RunCall(StrategyCode("exports function", "none", "none",
                                       FALSE, FALSE, TRUE, FALSE), RawData(raw)) :
                  raw \in StrategySeries}
    /\ params = [hasSize |-> FALSE, size |-> 0]
    /\ runs = <<>>
    /\ NoLiveTrading
    /\ Fresh

\* The scheduler runs what can run: run() goes on whenever it has a step to
\* take.
SpecStrategyFair == InitNeverReturns /\ [][Next]_vars /\ WF_vars(Next)

\* ---------------------------------------------------- two calls of run()
\* A call of run() that has not begun.
NotStarted(c) ==
    [call |-> c, pc |-> "start", candlesByTf |-> <<>>, primarySeries |-> <<>>,
     tfIndices |-> <<>>, i |-> 0, capital |-> 0, position |-> NoPosition, trades |-> <<>>,
     state |-> {}, calls |-> <<>>, result |-> NoResult]

\* run() up to its loop, as the locals it has declared: let candlesByTf,
\* let primarySeries, let capital, let position, const trades, const state,
\* const tfIndices.
RunLocals(eng, c) ==
    LET strategy == createStrategyFunction(c.strategyCode)
        prologue == RunPrologue(eng, c.data)
    IN  IF strategy.ok /\ prologue.ok
        THEN [call |-> c, pc |-> "loop",
              candlesByTf |-> prologue.value.candlesByTf,
              primarySeries |-> prologue.value.primarySeries,
              tfIndices |-> [k \in 1..Len(prologue.value.candlesByTf) |-> 0],
              i |-> 0, capital |-> eng.initialCapital * MoneyUnit,
              position |-> NoPosition, trades |-> <<>>, state |-> {}, calls |-> <<>>,
              result |-> NoResult]
        ELSE [NotStarted(c) EXCEPT
                !.pc = "failed",
                !.result = [returned |-> FALSE,
                            error |-> IF strategy.ok THEN prologue.error ELSE strategy.error]]

\* One iteration of the for loop on the locals of a call.
RunStepped(run, prm, r, effect) ==
    LET shown   == run.primarySeries[run.i + 1]
        cursors == AdvanceCursors(run.candlesByTf, run.tfIndices, shown)
        candle  == CandleAfter(shown, effect)
        after   == TryBlock(r, candle, run.i, run.capital, run.position, run.trades)
    IN  [run EXCEPT
            !.tfIndices = cursors,
            !.primarySeries = [run.primarySeries EXCEPT ![run.i + 1] = candle],
            !.candlesByTf = DatasetAfter(run.candlesByTf, run.call.data, run.i, candle),
            !.state = BagAfter(run.state, r, effect, run.i),
            !.capital = after.capital,
            !.position = after.position,
            !.trades = after.trades,
            !.calls = Append(run.calls, [result |-> r, effect |-> effect]),
            !.i = run.i + 1]

\* run() after its loop on the locals of a call.
RunEnded(run) ==
    LET after == CloseAtEnd(run.primarySeries, run.capital, run.position, run.trades)
    IN  [run EXCEPT
            !.capital = after.capital,
            !.position = after.position,
            !.trades = after.trades,
            !.pc = "done",
            !.result = [returned |-> TRUE, trades |-> after.trades,
                        metrics |-> calculateMetrics(after.trades, MetricsEquityCurve,
                                                     engine.initialCapital * MoneyUnit),
                        finalCapital |-> after.capital]]

\* The loop of a call executed alone over the strategy calls `calls`.
RECURSIVE Replayed(_, _, _)
Replayed(run, prm, calls) ==
    IF calls = <<>> THEN run
    ELSE Replayed(RunStepped(run, prm, Head(calls).result, Head(calls).effect), prm, Tail(calls))

\* The call c executed alone, its strategy calls resulting in `calls`.
RunAlone(eng, c, prm, calls) ==
    LET started == RunLocals(eng, c)
    IN  IF started.pc = "failed" THEN started
        ELSE RunEnded(Replayed(started, prm, calls))

\* variant: the capital is a field of the engine
RunsAfterCapitalOnEngine(all, n, run) ==
    [k \in DOMAIN all |-> IF k = n THEN run ELSE [all[k] EXCEPT !.capital = run.capital]]

\* What a part of call n, from one await to the next, leaves behind: the
\* locals of call n.
RunsAfter(all, n, run) ==
    [all EXCEPT ![n] = run]

\* The strategy calls of the two calls: raising, or returning BUY or SELL.
TradingOutcomes(code, prm) ==
    {r \in StrategyOutcomes(code, prm) :
        r.outcome = "throw" \/ (r.outcome = "object" /\ r.signal \in {"BUY", "SELL"})}

\* Two calls of run() on one engine, each with the candles loaded for it:
\* the strategy of the first writes to its state bag, the strategy of the
\* second sets the close of its current candle.
InitTwo ==
    /\ engine = BacktestEngine(CHOOSE o \in EngineOptions : o.commission = 0)
    /\ LET ShortSeries == {x \in StrategySeries : Len(x) < MaxLen}
       IN call \in {[op     |-> "run twice",
                  first  |-> RunCall(StrategyCode("exports function", "none", "none",
                                                  TRUE, FALSE, FALSE, FALSE), RawData(a)),
                  second |-> RunCall(StrategyCode("exports function", "none", "none",
                                                  FALSE, TRUE, FALSE, FALSE), RawData(b))] :
                  a \in ShortSeries, b \in ShortSeries}
    /\ params = [hasSize |-> FALSE, size |-> 0]
    /\ runs = <<NotStarted(call.first), NotStarted(call.second)>>
    /\ NoLiveTrading
    /\ Fresh

\* One of the calls begins and runs up to its loop.
StartOne ==
    /\ \E n \in DOMAIN runs :
         /\ runs[n].pc = "start"
         /\ runs' = RunsAfter(runs, n, RunLocals(engine, runs[n].call))
    /\ UNCHANGED <<broker, sessionObjects, activeSessions, timers, ticks, call, engine, candlesByTf, primarySeries, tfIndices, ctx, state, reached,
                   equityPoints, params, pc, i, capital, position, trades, signals,
                   errorLog, result>>

\* One of the calls goes through one iteration of its loop, the other
\* waiting at its await.
StepOne ==
    /\ \E n \in DOMAIN runs :
         /\ runs[n].pc = "loop"
         /\ runs[n].i < Len(runs[n].primarySeries)
         /\ \E r \in TradingOutcomes(runs[n].call.strategyCode, params),
               effect \in SideEffects(runs[n].call.strategyCode) :
              runs' = RunsAfter(runs, n, RunStepped(runs[n], params, r, effect))
    /\ UNCHANGED <<broker, sessionObjects, activeSessions, timers, ticks, call, engine, candlesByTf, primarySeries, tfIndices, ctx, state, reached,
                   equityPoints, params, pc, i, capital, position, trades, signals,
                   errorLog, result>>

\* One of the calls leaves its loop and returns.
EndOne ==
    /\ \E n \in DOMAIN runs :
         /\ runs[n].pc = "loop"
         /\ runs[n].i >= Len(runs[n].primarySeries)
         /\ runs' = RunsAfter(runs, n, RunEnded(runs[n]))
    /\ UNCHANGED <<broker, sessionObjects, activeSessions, timers, ticks, call, engine, candlesByTf, primarySeries, tfIndices, ctx, state, reached,
                   equityPoints, params, pc, i, capital, position, trades, signals,
                   errorLog, result>>

NextTwo == StartOne \/ StepOne \/ EndOne

SpecTwo == InitTwo /\ [][NextTwo]_vars

\* ------------------------------------------------ run() over timeframes
\* The candle of a tick of the minute grid; its price alternates.
TickCandle(tick) == FlatCandle(tick * MinuteMs, 1 + (tick % 2))

\* The timeframe options of the constructor: none, the legacy option, arrays
\* of one or two labels, the empty array, an array with a label that is no
\* timeframe.
TimeframeOptions ==
    LET Options(has, tfs, tf) ==
            [commission |-> 0, slippage |-> 0, initialCapital |-> MaxCapital,
             hasTimeframes |-> has, timeframes |-> tfs, timeframe |-> tf]
    IN {Options(FALSE, <<>>, <<>>),
        Options(FALSE, <<>>, <<"2", "m">>),
        Options(TRUE, <<>>, <<"2", "m">>),
        Options(TRUE, << <<"1", "m">> >>, <<>>),
        Options(TRUE, << <<"2", "m">>, <<"1", "m">> >>, <<>>),
        Options(TRUE, << <<"2", "m">>, <<"1", "H">>, <<"2", "m">> >>, <<>>),
        Options(TRUE, << <<"1", "w">> >>, <<>>),
        Options(TRUE, << <<"1", "m">>, <<"x", "2", "m">> >>, <<>>)}

\* Mappings of no, one or two labels, the keys in either order; the series
\* of a mapping: up to two candles of the grid, in any order.
Mappings ==
    LET MappedSeries == UNION {[1..n -> {TickCandle(t) : t \in Ticks}] : n \in 0..2}
        MappedLabels == {<<"1", "m">>, <<"2", "m">>, <<"1", "H">>, <<"1", "w">>}
    IN {<<>>}
       \cup {<<[tf |-> a, candles |-> x]>> : a \in MappedLabels, x \in MappedSeries}
       \cup {<<[tf |-> ab[1], candles |-> x], [tf |-> ab[2], candles |-> y]>> :
                ab \in {p \in MappedLabels \X MappedLabels : p[1] # p[2]},
                x \in MappedSeries, y \in MappedSeries}

\* A raw series holds the ticks of a set, in time order.
InitTf ==
    /\ \/ /\ engine \in {BacktestEngine(o) : o \in TimeframeOptions}
          /\ call \in {RunCall(PlainStrategy,
                                RawData([k \in 1..Len(SortAscending(ts)) |->
                                            TickCandle(SortAscending(ts)[k])])) :
                          ts \in {t \in SUBSET Ticks : Cardinality(t) <= MaxLen}}
       \/ /\ engine = BacktestEngine(CHOOSE o \in EngineOptions : o.commission = 0)
          /\ call \in {RunCall(PlainStrategy,
                                [isMapping |-> TRUE, raw |-> <<>>, mapping |-> mapping]) :
                          mapping \in Mappings}
    /\ params = [hasSize |-> FALSE, size |-> 0]
    /\ runs = <<>>
    /\ NoLiveTrading
    /\ Fresh

SpecTf == InitTf /\ [][Next]_vars

\* --------------------------------------------------------------- loadData
\* A column of a CSV row is absent, or holds a text; a text is the sequence
\* of its characters.  A number is finite, infinite or NaN.
Absent == [present |-> FALSE, text |-> <<>>]

Text(chars) == [present |-> TRUE, text |-> chars]

NaN == [kind |-> "nan", value |-> 0]

Infinity == [kind |-> "infinite", value |-> 1]

Finite(n) == [kind |-> "finite", value |-> n]

InfinityText == <<"I", "n", "f", "i", "n", "i", "t", "y">>

\* The length of the run of digits a text starts with.
RECURSIVE LeadingDigits(_)
LeadingDigits(chars) ==
    IF chars = <<>> \/ chars[1] \notin Digits THEN 0
    ELSE 1 + LeadingDigits(Tail(chars))

\* parseFloat of a text without sign, point or exponent: Infinity, or the
\* digits it starts with, whatever follows them; NaN without such a start.
parseFloat(chars) ==
    IF Len(chars) >= Len(InfinityText) /\ SubSeq(chars, 1, Len(InfinityText)) = InfinityText
    THEN Infinity
    ELSE IF LeadingDigits(chars) = 0 THEN NaN
    ELSE Finite(parseInt(SubSeq(chars, 1, LeadingDigits(chars))))

\* parseFloat(row.open): an absent column is undefined, which parses to NaN
ParseColumn(column) ==
    IF column.present THEN parseFloat(column.text) ELSE NaN

\* parseFloat(row.volume || 0): an absent or empty column is 0
ParseVolume(column) ==
    IF ~column.present \/ column.text = <<>> THEN Finite(0)
    ELSE parseFloat(column.text)

\* a || b on columns: the first that holds a non-empty text
OrElse(a, b) == IF a.present /\ a.text # <<>> THEN a ELSE b

\* row.timestamp || row.time || row.date || row.datetime
TimeValue(row) == OrElse(row.timestamp, OrElse(row.time, OrElse(row.date, row.datetime)))

\* timeValue.replace(' ', 'T'): the first space only
RECURSIVE ReplaceFirstSpace(_)
ReplaceFirstSpace(chars) ==
    IF chars = <<>> THEN <<>>
    ELSE IF chars[1] = " " THEN <<"T">> \o Tail(chars)
    ELSE <<chars[1]>> \o ReplaceFirstSpace(Tail(chars))

\* Timestamps are written with the dates D and E (a day apart), the times
\* a and b (an hour apart) and the separators T and space.
DateOf(ch) == CASE ch = "D" -> 0 [] ch = "E" -> DayMs

TimeOf(ch) == CASE ch = "a" -> 0 [] ch = "b" -> HourMs

\* new Date(isoString).getTime(): a date, or a date, T and a time; every
\* other text is an invalid date.
DateParse(chars) ==
    IF Len(chars) = 1 /\ chars[1] \in {"D", "E"} THEN Return(DateOf(chars[1]))
    ELSE IF /\ Len(chars) = 3
            /\ chars[1] \in {"D", "E"}
            /\ chars[2] = "T"
            /\ chars[3] \in {"a", "b"}
    THEN Return(DateOf(chars[1]) + TimeOf(chars[3]))
    ELSE Throw("Invalid Date")

\* The timestamp of a row: new Date(undefined) is an invalid date.
RowTimestamp(row) ==
    LET timeValue == TimeValue(row)
    IN IF timeValue.present THEN DateParse(ReplaceFirstSpace(timeValue.text))
       ELSE Throw("Invalid Date")

\* !isNaN(candle.open)
IsPrice(number) == number # NaN

\* The candle of a row, or undefined for a row that is skipped.
RowCandle(row) ==
    LET timestamp == RowTimestamp(row)
        candle == [timestamp |-> IF timestamp.ok THEN timestamp.value ELSE 0,
                   open      |-> ParseColumn(row.open),
                   high      |-> ParseColumn(row.high),
                   low       |-> ParseColumn(row.low),
                   close     |-> ParseColumn(row.close),
                   volume    |-> ParseVolume(row.volume)]
    IN IF ~timestamp.ok THEN Throw("skipped")
       ELSE IF /\ IsPrice(candle.open)
               /\ IsPrice(candle.high)
               /\ IsPrice(candle.low)
               /\ IsPrice(candle.close)
       THEN Return(candle)
       ELSE Throw("skipped")

\* The 'data' handler over the rows of the file, in order.
RECURSIVE LoadRows(_)
LoadRows(rows) ==
    IF rows = <<>> THEN <<>>
    ELSE LET candle == RowCandle(rows[Len(rows)])
             before == LoadRows(SubSeq(rows, 1, Len(rows) - 1))
         IN IF candle.ok THEN Append(before, candle.value) ELSE before

\* loadData: the promise resolves with the candles at 'end' and rejects on a
\* stream error.
loadData(file) ==
    IF file.readable THEN Return(LoadRows(file.rows)) ELSE Throw("stream error")

\* Rows: a good one, and rows that differ from it in one column.
GoodRow ==
    [timestamp |-> Text(<<"D", "T", "a">>), time |-> Absent, date |-> Absent, datetime |-> Absent,
     open |-> Text(<<"1">>), high |-> Text(<<"2">>), low |-> Text(<<"1">>),
     close |-> Text(<<"2">>), volume |-> Text(<<"5">>)]

CsvRows ==
    {GoodRow,
     [GoodRow EXCEPT !.timestamp = Text(<<"E", " ", "b">>)],
     [GoodRow EXCEPT !.timestamp = Text(<<"E">>), !.open = Text(<<"1", "0">>)],
     [GoodRow EXCEPT !.timestamp = Text(<<>>), !.date = Text(<<"D", " ", "b">>)],
     [GoodRow EXCEPT !.timestamp = Absent, !.datetime = Text(<<"E", "T", "a">>)],
     [GoodRow EXCEPT !.timestamp = Text(<<"x">>)],
     [GoodRow EXCEPT !.timestamp = Absent],
     [GoodRow EXCEPT !.open = Text(<<"x">>)],
     [GoodRow EXCEPT !.high = Text(<<>>)],
     [GoodRow EXCEPT !.low = Absent],
     [GoodRow EXCEPT !.close = Text(<<"2", "x">>)],
     [GoodRow EXCEPT !.high = Text(InfinityText)],
     [GoodRow EXCEPT !.volume = Absent],
     [GoodRow EXCEPT !.volume = Text(<<>>)],
     [GoodRow EXCEPT !.volume = Text(<<"x">>)]}

\* Files of up to MaxRows rows, and a file that cannot be read.
InitLoad ==
    /\ engine = BacktestEngine(CHOOSE o \in EngineOptions : o.commission = 0)
    /\ call \in {[op |-> "loadData", file |-> file] :
                    file \in {[readable |-> TRUE, rows |-> rows] :
                                 rows \in UNION {[1..n -> CsvRows] : n \in 0..MaxRows}}
                              \cup {[readable |-> FALSE, rows |-> <<>>]}}
    /\ params = [hasSize |-> FALSE, size |-> 0]
    /\ runs = <<>>
    /\ NoLiveTrading
    /\ Fresh

\* One call of loadData: the candles it resolves with, or its rejection.
LoadData ==
    /\ pc = "start"
    /\ call.op = "loadData"
    /\ LET out == loadData(call.file)
       IN  result' = IF out.ok THEN [returned |-> TRUE, value |-> out.value]
                     ELSE [returned |-> FALSE, error |-> out.error]
    /\ pc' = "done"
    /\ UNCHANGED <<broker, sessionObjects, activeSessions, timers, ticks, call, engine, runs, candlesByTf, primarySeries, tfIndices, ctx, state, reached,
                   equityPoints, params, i, capital, position, trades, signals, errorLog>>

SpecLoad == InitLoad /\ [][LoadData]_vars

\* ------------------------------------------- calculateMetrics on its own
\* Trades that lost one unit of money, broke even, won one or two; equity
\* series of up to two points, below, at and above the initial capital.
InitMetrics ==
    /\ engine = BacktestEngine(CHOOSE o \in EngineOptions : o.commission = 0)
    /\ call \in
         {[op |-> "calculateMetrics", trades |-> ts, equityCurve |-> eq,
           initialCapital |-> engine.initialCapital * MoneyUnit] :
            ts \in UNION {[1..n -> [pnl : {-MoneyUnit, 0, MoneyUnit, 2 * MoneyUnit}]] :
                             n \in 0..MaxLen},
            eq \in UNION {[1..n -> [timestamp : {0},
                                    equity : {e * MoneyUnit : e \in 0..(MaxCapital + 1)}]] :
                             n \in 0..2}}
    /\ params = [hasSize |-> FALSE, size |-> 0]
    /\ runs = <<>>
    /\ NoLiveTrading
    /\ Fresh

\* One call of calculateMetrics.
CalculateMetrics ==
    /\ pc = "start"
    /\ call.op = "calculateMetrics"
    /\ result' = [returned |-> TRUE,
                  value |-> calculateMetrics(call.trades, call.equityCurve, call.initialCapital)]
    /\ pc' = "done"
    /\ UNCHANGED <<broker, sessionObjects, activeSessions, timers, ticks, call, engine, runs, candlesByTf, primarySeries, tfIndices, ctx, state, reached,
                   equityPoints, params, i, capital, position, trades, signals, errorLog>>

SpecMetrics == InitMetrics /\ [][CalculateMetrics]_vars

\* ------------------------------------------------------------ POST /run
\* The files of a request: one without rows, one whose only row has no
\* timestamp that parses, one with one good row, one that cannot be read.
RouteFiles ==
    {[readable |-> TRUE, rows |-> <<>>],
     [readable |-> TRUE, rows |-> <<[GoodRow EXCEPT !.timestamp = Text(<<"x">>)]>>],
     [readable |-> TRUE, rows |-> <<GoodRow>>],
     [readable |-> FALSE, rows |-> <<>>]}

\* The requests: strategyId and name given or not, the strategy found or
\* not, timeframes, the legacy timeframe, the uploaded files, body.dataFile.
\* req.body.timeframes is absent, or the JSON text of an array of n labels,
\* of a number, or of null.
Requests ==
    [hasIdAndName  : BOOLEAN,
     strategyFound : BOOLEAN,
     timeframes    : {[kind |-> "absent", length |-> 0], [kind |-> "number", length |-> 0],
                      [kind |-> "null", length |-> 0]}
                     \cup {[kind |-> "array", length |-> n] : n \in 0..MaxFiles},
     hasTimeframe  : BOOLEAN,
     files         : UNION {[1..n -> RouteFiles] : n \in 0..MaxFiles},
     dataFile      : {[present |-> FALSE, file |-> [readable |-> FALSE, rows |-> <<>>]]}
                     \cup {[present |-> TRUE, file |-> f] : f \in RouteFiles}]

\* let tfs = [] ... : what the request's timeframes parse to.
ParseTimeframes(req) ==
    IF req.timeframes.kind # "absent" THEN req.timeframes
    ELSE IF req.hasTimeframe THEN [kind |-> "array", length |-> 1]
    ELSE [kind |-> "array", length |-> 0]

\* return res.status(status).json({ error })
Reject(status, error) ==
    [proceed |-> FALSE, status |-> status, error |-> error, data |-> <<>>]

\* The handler goes on to engine.run with dataParam.
Proceed(dataParam) ==
    [proceed |-> TRUE, status |-> 0, error |-> "", data |-> dataParam]

\* variant: only a value that is no array counts as no data
NoValidDataNotArrayOnly(loaded) == FALSE

\* !Array.isArray(loaded) || loaded.length === 0
NoValidData(loaded) == Len(loaded) = 0

\* const loaded = await engine.loadData(path); if (...) return 400
LoadFile(file, error) ==
    LET loaded == loadData(file)
    IN  IF ~loaded.ok THEN Reject(500, "Backtest failed")
        ELSE IF NoValidData(loaded.value) THEN Reject(400, error)
        ELSE Proceed(<<loaded.value>>)

\* for (let i = 0; i < tfs.length; i++) { ... dataByTf[tfs[i]] = loaded }
RECURSIVE LoadEach(_, _, _)
LoadEach(files, k, dataByTf) ==
    IF k > Len(files) THEN Proceed(dataByTf)
    ELSE LET one == LoadFile(files[k], "No valid data found in uploaded file")
         IN  IF ~one.proceed THEN one
             ELSE LoadEach(files, k + 1, dataByTf \o one.data)

\* The handler up to its call of engine.run.
PostRunUpToEngine(req) ==
    LET tfs == ParseTimeframes(req)
    IN  IF ~req.hasIdAndName THEN Reject(400, "Strategy ID and name are required")
        ELSE IF ~req.strategyFound THEN Reject(404, "Strategy not found")
        ELSE IF tfs.kind = "null" THEN Reject(500, "Backtest failed")
        ELSE IF Len(req.files) > 1
        THEN IF tfs.kind = "array" /\ tfs.length = 0
             THEN Reject(400, "When uploading multiple files, please provide timeframes")
             ELSE IF tfs.kind # "array" \/ Len(req.files) # tfs.length
             THEN Reject(400, "Uploaded files but timeframes provided")
             ELSE LoadEach(req.files, 1, <<>>)
        ELSE IF Len(req.files) = 1
        THEN LoadFile(req.files[1], "No valid data found in uploaded file")
        ELSE IF req.dataFile.present
        THEN LoadFile(req.dataFile.file, "No valid data found in CSV file")
        ELSE Reject(400, "Data file is required")

InitRoute ==
    /\ engine = BacktestEngine(CHOOSE o \in EngineOptions : o.commission = 0)
    /\ call \in {[op |-> "POST /run", req |-> req] : req \in Requests}
    /\ params = [hasSize |-> FALSE, size |-> 0]
    /\ runs = <<>>
    /\ NoLiveTrading
    /\ Fresh

\* One request: it is answered before engine.run is called, or engine.run is
\* called with the loaded data and the answer is 201, or 500 when run, the
\* export or the database raises.
PostRun ==
    /\ pc = "start"
    /\ call.op = "POST /run"
    /\ LET upTo == PostRunUpToEngine(call.req)
       IN  IF ~upTo.proceed
           THEN result' = [status |-> upTo.status, error |-> upTo.error,
                           engineRun |-> FALSE, data |-> <<>>]
           ELSE \E raised \in BOOLEAN :
                  result' = [status |-> IF raised THEN 500 ELSE 201,
                             error |-> IF raised THEN "Backtest failed" ELSE "",
                             engineRun |-> TRUE, data |-> upTo.data]
    /\ pc' = "done"
    /\ UNCHANGED <<broker, sessionObjects, activeSessions, timers, ticks, call, engine, runs, candlesByTf, primarySeries, tfIndices, ctx, state, reached,
                   equityPoints, params, i, capital, position, trades, signals, errorLog>>

SpecRoute == InitRoute /\ [][PostRun]_vars

\* ----------------------------------------------------------- PaperBroker
\* Amounts of the broker are in thousandths: the commission of 0.1% of
\* price * size is price * size thousandths.
Milli == 1000

Symbols == {"AAA", "BBB"}

OrderPrices == {1, 2}

\* constructor(initialCapital)
PaperBroker(initialCapital) ==
    [initialCapital |-> initialCapital * Milli,
     balance        |-> initialCapital * Milli,
     positions      |-> [symbol \in Symbols |-> NoPosition],
     orders         |-> <<>>,
     equity         |-> initialCapital * Milli]

\* side.toUpperCase()
toUpperCase(side) ==
    CASE side = "buy" -> "BUY"
      [] side = "sell" -> "SELL"
      [] OTHER -> side

\* const order = { ... status: 'pending', ... pnl: 0 }
PendingOrder(symbol, side, size, currentPrice) ==
    [symbol |-> symbol, side |-> side, size |-> size,
     requestedPrice |-> currentPrice, executedPrice |-> currentPrice,
     commission |-> currentPrice * size,
     totalCost |-> currentPrice * size * Milli + currentPrice * size,
     status |-> "pending", reason |-> "", pnl |-> 0]

\* placeOrder: the broker after the call and the order it returns.
placeOrder(b, symbol, side, size, currentPrice) ==
    LET order == PendingOrder(symbol, side, size, currentPrice)
        held == b.positions[symbol]
        revenue == currentPrice * size * Milli - order.commission
        positionPnL == revenue - (held.entryPrice * size * Milli + held.commission)
        Filed(after, o) == [broker |-> [after EXCEPT !.orders = Append(b.orders, o)], order |-> o]
    IN  IF toUpperCase(side) = "BUY"
        THEN IF b.balance >= order.totalCost
             THEN Filed([b EXCEPT !.balance = b.balance - order.totalCost,
                                  !.positions[symbol] =
                                      [side |-> "LONG", size |-> size,
                                       entryPrice |-> currentPrice, pnl |-> 0,
                                       pnlPercent |-> [num |-> 0, den |-> 1],
                                       commission |-> order.commission]],
                        [order EXCEPT !.status = "filled"])
             ELSE Filed(b, [order EXCEPT !.status = "rejected", !.reason = "Insufficient funds"])
        ELSE IF toUpperCase(side) = "SELL"
        THEN IF held # NoPosition /\ held.side = "LONG"
             THEN Filed([b EXCEPT !.balance = b.balance + revenue,
                                  !.equity = b.equity + positionPnL,
                                  !.positions[symbol] = NoPosition],
                        [order EXCEPT !.status = "filled", !.pnl = positionPnL])
             ELSE Filed(b, [order EXCEPT !.status = "rejected",
                                         !.reason = "No open position to close"])
        ELSE Filed(b, [order EXCEPT !.status = "rejected",
                                    !.reason = "Invalid side: must be BUY or SELL"])

\* The sum of the pnl stored in the open positions.
RECURSIVE SumPositionPnl(_, _)
SumPositionPnl(positions, symbols) ==
    IF symbols = {} THEN 0
    ELSE LET symbol == CHOOSE x \in symbols : TRUE
         IN  (IF positions[symbol] # NoPosition THEN positions[symbol].pnl ELSE 0)
             + SumPositionPnl(positions, symbols \ {symbol})

\* recalculateEquity()
recalculateEquity(b) ==
    [b EXCEPT !.equity = b.balance + SumPositionPnl(b.positions, Symbols)]

\* updatePositionPrice(symbol, currentPrice)
updatePositionPrice(b, symbol, currentPrice) ==
    LET held == b.positions[symbol]
    IN  IF held # NoPosition
        THEN recalculateEquity(
               [b EXCEPT !.positions[symbol] =
                   [held EXCEPT
                      !.pnl = currentPrice * held.size * Milli
                              - (held.entryPrice * held.size * Milli + held.commission),
                      !.pnlPercent = [num |-> (currentPrice - held.entryPrice) * 100,
                                      den |-> held.entryPrice]]])
        ELSE b

InitBroker ==
    /\ engine = BacktestEngine(CHOOSE o \in EngineOptions : o.commission = 0)
    /\ call = [op |-> "PaperBroker"]
    /\ params = [hasSize |-> FALSE, size |-> 0]
    /\ runs = <<>>
    /\ broker = PaperBroker(MaxCapital)
    /\ sessionObjects = <<>>
    /\ activeSessions = {}
    /\ timers = {}
    /\ ticks = {}
    /\ Fresh

\* One call of placeOrder.
PlaceOrder ==
    /\ call.op = "PaperBroker"
    /\ Len(broker.orders) < MaxOrders
    /\ \E symbol \in Symbols, side \in {"BUY", "SELL", "buy", "HOLD"}, size \in {1, 2}, price \in OrderPrices :
         broker' = placeOrder(broker, symbol, side, size, price).broker
    /\ UNCHANGED <<sessionObjects, activeSessions, timers, ticks, call, engine, runs,
                   candlesByTf, primarySeries, tfIndices, ctx, state, reached, equityPoints,
                   params, pc, i, capital, position, trades, signals, errorLog, result>>

\* One call of updatePositionPrice.
UpdatePositionPrice ==
    /\ call.op = "PaperBroker"
    /\ \E symbol \in Symbols, price \in OrderPrices :
         broker' = updatePositionPrice(broker, symbol, price)
    /\ UNCHANGED <<sessionObjects, activeSessions, timers, ticks, call, engine, runs,
                   candlesByTf, primarySeries, tfIndices, ctx, state, reached, equityPoints,
                   params, pc, i, capital, position, trades, signals, errorLog, result>>

NextBroker == PlaceOrder \/ UpdatePositionPrice

SpecBroker == InitBroker /\ [][NextBroker]_vars

\* ---------------------------------------------------------- live trading
\* Session ids: setupLiveTrading makes them in this order; an id that was
\* never set up can still be asked for.
SessionIds == {1, 2}

\* activeSessions.set(sessionId, { ... isRunning: false, ws: null, trades: [],
\* candles: [] ... }); the broker of the session is kept as the orders
\* placed with it, each with the candle whose price it was placed at.
NewSession ==
    [isRunning       |-> FALSE,
     tradingInterval |-> 0,
     intervalsSet    |-> 0,
     candles         |-> 0,
     strategyCalls   |-> 0,
     orders          |-> <<>>,
     trades          |-> <<>>]

\* What a call of the strategy function comes to: no signal, BUY with a
\* size, or an error.  SELL goes through statements that are those of BUY
\* but for the side they pass on.
LiveSignals == {"none", "BUY", "throw"}

\* variant: a session is started whether or not it is running
AlreadyRunningIgnored(session) == FALSE

\* if (session.isRunning) return
AlreadyRunning(session) == session.isRunning

\* The part of the interval callback after await session.strategyFn(...):
\* the order of a BUY or SELL signal is placed at the price of the tick's
\* candle and, when it is filled, pushed to session.trades.
AfterStrategy(session, tick, signal, filled) ==
    IF signal \in {"BUY", "SELL"}
    THEN [session EXCEPT
            !.orders = Append(session.orders, [side |-> signal, candle |-> tick]),
            !.trades = IF filled
                       THEN Append(session.trades, [side |-> signal, candle |-> tick])
                       ELSE session.trades]
    ELSE session

InitLive ==
    /\ engine = BacktestEngine(CHOOSE o \in EngineOptions : o.commission = 0)
    /\ call = [op |-> "live trading"]
    /\ params = [hasSize |-> FALSE, size |-> 0]
    /\ runs = <<>>
    /\ NoLiveTrading
    /\ Fresh

\* setupLiveTrading with brokerType 'paper' and strategy code that loads.
SetupLiveTrading ==
    /\ call.op = "live trading"
    /\ Len(sessionObjects) < Cardinality(SessionIds)
    /\ sessionObjects' = Append(sessionObjects, NewSession)
    /\ activeSessions' = activeSessions \cup {Len(sessionObjects) + 1}
    /\ result' = [op |-> "setupLiveTrading", sessionId |-> Len(sessionObjects) + 1,
                  outcome |-> "returned"]
    /\ UNCHANGED <<broker, timers, ticks, call, engine, runs,
                   candlesByTf, primarySeries, tfIndices, ctx, state, reached, equityPoints,
                   params, pc, i, capital, position, trades, signals, errorLog>>

\* startTradingSession(sessionId, ws): on 'subscribe'.
StartTradingSession ==
    /\ call.op = "live trading"
    /\ \E sessionId \in SessionIds :
         IF sessionId \notin activeSessions
         THEN /\ result' = [op |-> "startTradingSession", sessionId |-> sessionId,
                            outcome |-> "Trading session not found"]
              /\ UNCHANGED <<sessionObjects, timers>>
         ELSE IF AlreadyRunning(sessionObjects[sessionId])
         THEN /\ result' = [op |-> "startTradingSession", sessionId |-> sessionId,
                            outcome |-> "returned"]
              /\ UNCHANGED <<sessionObjects, timers>>
         ELSE LET interval == sessionObjects[sessionId].intervalsSet + 1
              IN  /\ sessionObjects' =
                        [sessionObjects EXCEPT ![sessionId].isRunning = TRUE,
                                               ![sessionId].tradingInterval = interval,
                                               ![sessionId].intervalsSet = interval]
                  /\ timers' = timers \cup {[session |-> sessionId, interval |-> interval]}
                  /\ result' = [op |-> "startTradingSession", sessionId |-> sessionId,
                                outcome |-> "started"]
    /\ UNCHANGED <<broker, activeSessions, ticks, call, engine, runs,
                   candlesByTf, primarySeries, tfIndices, ctx, state, reached, equityPoints,
                   params, pc, i, capital, position, trades, signals, errorLog>>

\* stopTradingSession(sessionId): called directly, on 'unsubscribe', on close.
StopTradingSession ==
    /\ call.op = "live trading"
    /\ \E sessionId \in SessionIds :
         /\ IF sessionId \in activeSessions
            THEN /\ sessionObjects' = [sessionObjects EXCEPT ![sessionId].isRunning = FALSE]
                 /\ timers' = timers \ {[session |-> sessionId,
                                          interval |-> sessionObjects[sessionId].tradingInterval]}
            ELSE UNCHANGED <<sessionObjects, timers>>
         /\ activeSessions' = activeSessions \ {sessionId}
         /\ result' = [op |-> "stopTradingSession", sessionId |-> sessionId,
                       outcome |-> "returned"]
    /\ UNCHANGED <<broker, ticks, call, engine, runs,
                   candlesByTf, primarySeries, tfIndices, ctx, state, reached, equityPoints,
                   params, pc, i, capital, position, trades, signals, errorLog>>

\* An interval fires: the callback generates a candle and calls the strategy.
\* A strategy that returns, or raises, without waiting for anything lets the
\* callback finish before anything else runs; otherwise the callback stays at
\* its await.
IntervalFires ==
    /\ call.op = "live trading"
    /\ \E timer \in timers :
         LET session == sessionObjects[timer.session]
             tick == session.candles + 1
             called == [session EXCEPT !.candles = tick,
                                       !.strategyCalls = session.strategyCalls + 1]
         IN  /\ session.candles < MaxCandles
             /\ \E waits \in BOOLEAN, signal \in LiveSignals, filled \in BOOLEAN :
                  IF waits
                  THEN /\ sessionObjects' = [sessionObjects EXCEPT ![timer.session] = called]
                       /\ ticks' = ticks \cup {[session |-> timer.session, candle |-> tick]}
                  ELSE /\ sessionObjects' =
                            [sessionObjects EXCEPT
                               ![timer.session] = AfterStrategy(called, tick, signal, filled)]
                       /\ ticks' = ticks
    /\ UNCHANGED <<broker, activeSessions, timers, call, engine, runs,
                   candlesByTf, primarySeries, tfIndices, ctx, state, reached, equityPoints,
                   params, pc, i, capital, position, trades, signals, errorLog, result>>

\* The strategy call of a callback at its await settles: the callback goes on
\* with the session object it holds.
StrategySettles ==
    /\ call.op = "live trading"
    /\ \E tick \in ticks, signal \in LiveSignals, filled \in BOOLEAN :
         /\ sessionObjects' =
               [sessionObjects EXCEPT
                  ![tick.session] = AfterStrategy(sessionObjects[tick.session], tick.candle,
                                                  signal, filled)]
         /\ ticks' = ticks \ {tick}
    /\ UNCHANGED <<broker, activeSessions, timers, call, engine, runs,
                   candlesByTf, primarySeries, tfIndices, ctx, state, reached, equityPoints,
                   params, pc, i, capital, position, trades, signals, errorLog, result>>

NextLive ==
    \/ SetupLiveTrading
    \/ StartTradingSession
    \/ StopTradingSession
    \/ IntervalFires
    \/ StrategySettles

SpecLive == InitLive /\ [][NextLive]_vars

\* ================================================================== claims

\* C1: at most one position is open at any point of run(): the position record
\* changes to a new open position only from the flat state, the trades of a run
\* never overlap (each trade's entryIndex is strictly greater than the previous
\* trade's exitIndex), and a position open inside the loop was entered after
\* the last recorded trade was exited.
C1_OnePositionNoOverlap ==
    [][ /\ (position' # position /\ position' # NoPosition => position = NoPosition)
        /\ \A k \in 1..(Len(trades') - 1) :
              trades'[k + 1].entryIndex > trades'[k].exitIndex
        /\ (pc' = "loop" /\ position' # NoPosition /\ trades' # <<>>
              => position'.entryIndex > trades'[Len(trades')].exitIndex)
      ]_vars

\* C1 witness: a completed run with two round trips.
C1_TwoRoundTrips ==
    pc = "done" /\ Len(result.trades) >= 2

\* C2 as stated: in the result of a completed run every trade has
\* exitIndex > entryIndex and both indices lie in [0, len(primarySeries)-1].
C2_StrictIndices ==
    pc = "done" =>
        \A k \in 1..Len(result.trades) :
            LET t == result.trades[k]
            IN  /\ t.exitIndex > t.entryIndex
                /\ t.entryIndex \in 0..(Len(primarySeries) - 1)
                /\ t.exitIndex \in 0..(Len(primarySeries) - 1)

\* C2 amended: every trade has both indices in [0, len(primarySeries)-1] and
\* exitIndex >= entryIndex; a trade closed by a SELL signal has
\* exitIndex > entryIndex; exitIndex = entryIndex happens only for the trade
\* force-closed at the end of the run when its position was opened at the last
\* candle.
C2_TradeIndices ==
    /\ \A k \in 1..Len(trades) :
          LET t == trades[k]
          IN  /\ t.entryIndex \in 0..(Len(primarySeries) - 1)
              /\ t.exitIndex \in 0..(Len(primarySeries) - 1)
              /\ t.exitIndex >= t.entryIndex
              /\ (t.exitIndex = t.entryIndex =>
                    /\ pc = "done"
                    /\ k = Len(trades)
                    /\ t.exitIndex = Len(primarySeries) - 1)
    /\ (pc = "done" => result.trades = trades)

\* C2 witness: a completed run whose second trade was opened at the last candle
\* and force-closed there.
C2_OpenedAtLastCandle ==
    /\ pc = "done"
    /\ Len(result.trades) = 2
    /\ result.trades[2].exitIndex = result.trades[2].entryIndex
    /\ result.trades[1].exitIndex > result.trades[1].entryIndex

\* C3: when the loop ends with a position open, run() appends exactly one more
\* trade for it, with exitIndex = len-1, exitPrice = lastClose*(1 - slippage),
\* netRevenue = exitPrice*size*(1 - commission), pnl by side and
\* pnlPercent = pnl/totalCost*100, and adds netRevenue to the capital; when the
\* loop ends flat, nothing is appended.
C3_ForceClose ==
    [][ pc = "loop" /\ pc' = "done" =>
          IF position # NoPosition
          THEN LET last == primarySeries[Len(primarySeries)]
                   exitPrice == last.close * (SlipDen - engine.slippage)
                   netRevenue == exitPrice * position.size * (CommDen - engine.commission)
                   pnl == IF position.side = "LONG"
                          THEN netRevenue - position.totalCost
                          ELSE position.totalCost - netRevenue
               IN  /\ result'.trades =
                        Append(trades,
                          [entryTime |-> position.entryTime, exitTime |-> last.timestamp,
                           side |-> position.side, size |-> position.size,
                           entryPrice |-> position.entryPrice, exitPrice |-> exitPrice,
                           pnl |-> pnl,
                           pnlPercent |-> [num |-> pnl * 100, den |-> position.totalCost],
                           entryIndex |-> position.entryIndex,
                           exitIndex |-> Len(primarySeries) - 1])
                   /\ result'.finalCapital = capital + netRevenue
          ELSE /\ result'.trades = trades
               /\ result'.finalCapital = capital
      ]_vars

\* C3 witness: a run that returned after force-closing a SHORT position that
\* had been open for more than one candle.
C3_ShortForceClosed ==
    /\ pc = "done"
    /\ position # NoPosition
    /\ position.side = "SHORT"
    /\ position.entryIndex < Len(primarySeries) - 1
    /\ result.trades[Len(result.trades)].entryIndex = position.entryIndex

\* C4: a step at which the strategy throws leaves capital, position and trades
\* as they were and the loop goes on with the next candle; a run whose strategy
\* threw at every step returns no trades and finalCapital = initialCapital.
C4_StrategyErrorSkipsStep ==
    [][ /\ (pc = "loop" /\ i' = i + 1 /\ signals'[Len(signals')].outcome = "throw"
              => /\ capital' = capital
                 /\ position' = position
                 /\ trades' = trades
                 /\ pc' = "loop")
        /\ (pc' = "done" /\ (\A k \in 1..Len(signals') : signals'[k].outcome = "throw")
              => /\ Len(signals') = Len(primarySeries)
                 /\ result'.trades = <<>>
                 /\ result'.finalCapital = engine.initialCapital * MoneyUnit)
      ]_vars

\* C4 witness: the strategy threw at the step after a position was opened.
C4_ThrowWhileOpen ==
    /\ pc = "loop"
    /\ Len(signals) >= 2
    /\ signals[Len(signals)].outcome = "throw"
    /\ position # NoPosition

\* C5: a run whose strategy returned HOLD at every step returns no trades,
\* finalCapital = initialCapital and a metrics report with every field zero.
C5_AlwaysHold ==
    pc = "done" /\ (\A k \in 1..Len(signals) :
                       signals[k].outcome = "object" /\ signals[k].signal = "HOLD")
      => /\ result.trades = <<>>
         /\ result.finalCapital = engine.initialCapital * MoneyUnit
         /\ DOMAIN result.metrics =
              {"totalTrades", "wins", "losses", "winRate", "accuracy", "netPnL", "roi",
               "maxDrawdown", "maxDrawdownPercent", "expectancy", "averageWin",
               "averageLoss", "profitFactor", "sharpeRatio"}
         /\ \A f \in DOMAIN result.metrics \ {"profitFactor"} : result.metrics[f] = 0
         /\ result.metrics.profitFactor = [infinite |-> FALSE, value |-> 0]

\* C5 witness: a completed run over at least two candles with HOLD throughout.
C5_HoldRunDone ==
    /\ pc = "done"
    /\ Len(signals) >= 2
    /\ \A k \in 1..Len(signals) : signals[k].outcome = "object" /\ signals[k].signal = "HOLD"

C7_BuyWhileOpenIsNoOp ==
    [][ /\ (pc = "loop" /\ i' = i + 1 /\ position # NoPosition
              /\ signals'[Len(signals')].outcome = "object"
              /\ signals'[Len(signals')].signal = "BUY"
              => /\ capital' = capital
                 /\ position' = position
                 /\ trades' = trades)
        /\ (position # NoPosition /\ (position' # position \/ trades' # trades)
              => \/ pc' = "done"
                 \/ /\ i' = i + 1
                    /\ signals'[Len(signals')].outcome = "object"
                    /\ signals'[Len(signals')].signal = "SELL")
      ]_vars

\* C7 witness: a BUY arrived while a SHORT position was open.
C7_BuyDuringShort ==
    /\ pc = "loop"
    /\ Len(signals) >= 2
    /\ signals[Len(signals)].outcome = "object"
    /\ signals[Len(signals)].signal = "BUY"
    /\ position # NoPosition
    /\ position.side = "SHORT"
    /\ position.entryIndex < i - 1

\* C8: a SELL while a position is open closes it at
\* exitPrice = close*(1 - slippage) with netRevenue = exitPrice*size*(1 - commission),
\* pnl = netRevenue - totalCost (LONG) or totalCost - netRevenue (SHORT),
\* pnlPercent = pnl/totalCost*100; exactly one trade is appended, capital grows
\* by netRevenue and the position becomes empty.
C8_SellCloses ==
    [][ pc = "loop" /\ i' = i + 1 /\ position # NoPosition
          /\ signals'[Len(signals')].outcome = "object"
          /\ signals'[Len(signals')].signal = "SELL"
          => LET candle == primarySeries[i + 1]
                 exitPrice == candle.close * (SlipDen - engine.slippage)
                 netRevenue == exitPrice * position.size * (CommDen - engine.commission)
                 pnl == IF position.side = "LONG"
                        THEN netRevenue - position.totalCost
                        ELSE position.totalCost - netRevenue
             IN  /\ trades' =
                      Append(trades,
                        [entryTime |-> position.entryTime, exitTime |-> candle.timestamp,
                         side |-> position.side, size |-> position.size,
                         entryPrice |-> position.entryPrice, exitPrice |-> exitPrice,
                         pnl |-> pnl,
                         pnlPercent |-> [num |-> pnl * 100, den |-> position.totalCost],
                         entryIndex |-> position.entryIndex, exitIndex |-> i])
                 /\ capital' = capital + netRevenue
                 /\ position' = NoPosition
      ]_vars

\* C8 witness: a SELL has just closed a SHORT position.
C8_ShortClosedBySell ==
    /\ pc = "loop"
    /\ position = NoPosition
    /\ trades # <<>>
    /\ trades[Len(trades)].side = "SHORT"
    /\ trades[Len(trades)].exitIndex = i - 1
    /\ signals[Len(signals)].signal = "SELL"

\* C9: while flat and funded, BUY opens a LONG at close*(1 + slippage) and SELL
\* a SHORT at close*(1 - slippage), with the signal's size (1 when the size is
\* absent or zero: size || 1.0); totalCost = entryPrice*size*(1 + commission)
\* is deducted from capital at that step, and the position record, totalCost
\* included, does not change while the position stays open.
C9_OpenFromFlat ==
    [][ /\ (pc = "loop" /\ i' = i + 1 /\ position = NoPosition
              /\ signals'[Len(signals')].outcome = "object"
              /\ signals'[Len(signals')].signal \in {"BUY", "SELL"}
              => LET r == signals'[Len(signals')]
                     candle == primarySeries[i + 1]
                     size == IF r.hasSize /\ r.size # 0 THEN r.size ELSE 1
                     entryPrice == IF r.signal = "BUY"
                                   THEN candle.close * (SlipDen + engine.slippage)
                                   ELSE candle.close * (SlipDen - engine.slippage)
                     totalCost == entryPrice * size * (CommDen + engine.commission)
                 IN  capital >= totalCost
                       => /\ position' =
                               [side |-> IF r.signal = "BUY" THEN "LONG" ELSE "SHORT",
                                size |-> size, entryPrice |-> entryPrice,
                                entryTime |-> candle.timestamp, entryIndex |-> i,
                                totalCost |-> totalCost]
                          /\ capital' = capital - totalCost
                          /\ trades' = trades)
        /\ (position # NoPosition /\ position' # NoPosition => position' = position)
      ]_vars

\* C9 witness: a SHORT of two units, opened by a SELL, is still held a step later.
C9_ShortHeld ==
    /\ pc = "loop"
    /\ position # NoPosition
    /\ position.side = "SHORT"
    /\ position.size = 2
    /\ position.entryIndex < i - 1
    /\ capital = engine.initialCapital * MoneyUnit - position.totalCost

\* C10: for n >= 2 candles and capital covering the BUY, a strategy that
\* returned BUY at index 0, SELL at index n-1 and HOLD in between yields exactly
\* one trade with entryIndex 0, exitIndex n-1,
\* entryPrice = close[0]*(1 + slippage) and exitPrice = close[n-1]*(1 - slippage).
C10_BuyFirstSellLast ==
    LET n == Len(primarySeries)
        IsSignal(k, a) == signals[k].outcome = "object" /\ signals[k].signal = a
        size == IF signals[1].hasSize /\ signals[1].size # 0 THEN signals[1].size ELSE 1
    IN  pc = "done" /\ n >= 2
          /\ IsSignal(1, "BUY") /\ IsSignal(n, "SELL")
          /\ (\A k \in 2..(n - 1) : IsSignal(k, "HOLD"))
          /\ engine.initialCapital * MoneyUnit >=
               primarySeries[1].close * (SlipDen + engine.slippage) * size
                 * (CommDen + engine.commission)
          => /\ Len(result.trades) = 1
             /\ result.trades[1].entryIndex = 0
             /\ result.trades[1].exitIndex = n - 1
             /\ result.trades[1].entryPrice = primarySeries[1].close * (SlipDen + engine.slippage)
             /\ result.trades[1].exitPrice = primarySeries[n].close * (SlipDen - engine.slippage)

\* C10 witness: such a run over three candles, completed with its one trade.
C10_ThreeCandleRoundTrip ==
    /\ pc = "done"
    /\ Len(primarySeries) = 3
    /\ signals[1].outcome = "object" /\ signals[1].signal = "BUY"
    /\ signals[2].outcome = "object" /\ signals[2].signal = "HOLD"
    /\ signals[3].outcome = "object" /\ signals[3].signal = "SELL"
    /\ Len(result.trades) = 1
    /\ result.trades[1].exitIndex = 2

\* C15: for a time-ascending input and a valid timeframe, each candle that
\* aggregateCandles returns has the open of the first input candle of its
\* bucket, the close of the last, the highest high, the lowest low and the sum
\* of the volumes of the input candles of its bucket.
C15_BucketOhlcv ==
    (/\ pc = "done"
     /\ call.op = "aggregateCandles"
     /\ timeframeToMs(call.timeframe).ok
     /\ \A k \in 1..(Len(call.candles) - 1) :
            call.candles[k].timestamp <= call.candles[k + 1].timestamp)
    => /\ result.returned
       /\ \A o \in 1..Len(result.value) :
            LET bucketMs == timeframeToMs(call.timeframe).value
                out      == result.value[o]
                members  == {k \in 1..Len(call.candles) :
                                /\ out.timestamp <= call.candles[k].timestamp
                                /\ call.candles[k].timestamp < out.timestamp + bucketMs}
                first    == CHOOSE k \in members : \A m \in members : k <= m
                last     == CHOOSE k \in members : \A m \in members : k >= m
                RECURSIVE VolumeUpTo(_)
                VolumeUpTo(n) ==
                    IF n = 0 THEN 0
                    ELSE VolumeUpTo(n - 1) + (IF n \in members THEN call.candles[n].volume ELSE 0)
            IN  /\ members # {}
                /\ out.open = call.candles[first].open
                /\ out.close = call.candles[last].close
                /\ \A m \in members : out.high >= call.candles[m].high
                /\ \E m \in members : out.high = call.candles[m].high
                /\ \A m \in members : out.low <= call.candles[m].low
                /\ \E m \in members : out.low = call.candles[m].low
                /\ out.volume = VolumeUpTo(Len(call.candles))

\* C15 witness: three ascending candles of different shapes in one 1H bucket,
\* aggregated into one candle.
C15_ThreeInOneBucket ==
    /\ pc = "done"
    /\ call.op = "aggregateCandles"
    /\ call.timeframe = <<"1", "H">>
    /\ Len(call.candles) = 3
    /\ call.candles[1].timestamp < call.candles[2].timestamp
    /\ call.candles[2].timestamp < call.candles[3].timestamp
    /\ call.candles[1].open # call.candles[2].open
    /\ call.candles[3].close # call.candles[1].close
    /\ call.candles[2].high > call.candles[1].high
    /\ call.candles[2].high > call.candles[3].high
    /\ result.returned
    /\ Len(result.value) = 1
    /\ result.value[1].volume = 3

\* C16: for a valid timeframe and candles in any order, every input candle
\* falls into exactly one returned bucket, the one that starts at
\* floor(timestamp / bucket_ms) * bucket_ms; every returned candle stands for a
\* bucket that holds an input candle; the returned timestamps are multiples of
\* bucket_ms and strictly increasing; the output is never longer than the
\* input.
C16_OneCandlePerBucket ==
    (/\ pc = "done"
     /\ call.op = "aggregateCandles"
     /\ timeframeToMs(call.timeframe).ok)
    => /\ result.returned
       /\ LET bucketMs == timeframeToMs(call.timeframe).value
              out      == result.value
              Holds(o, k) == /\ out[o].timestamp <= call.candles[k].timestamp
                             /\ call.candles[k].timestamp < out[o].timestamp + bucketMs
          IN  /\ Len(out) <= Len(call.candles)
              /\ \A o \in 1..Len(out) : out[o].timestamp % bucketMs = 0
              /\ \A o \in 1..(Len(out) - 1) : out[o].timestamp < out[o + 1].timestamp
              /\ \A o \in 1..Len(out) : \E k \in 1..Len(call.candles) : Holds(o, k)
              /\ \A k \in 1..Len(call.candles) :
                    Cardinality({o \in 1..Len(out) : Holds(o, k)}) = 1

\* C16 witness: three candles out of order, two of them in the second 2m
\* bucket, aggregated into two candles.
C16_UnorderedTwoBuckets ==
    /\ pc = "done"
    /\ call.op = "aggregateCandles"
    /\ call.timeframe = <<"2", "m">>
    /\ Len(call.candles) = 3
    /\ call.candles[1].timestamp = 2 * MinuteMs
    /\ call.candles[2].timestamp = 0
    /\ call.candles[3].timestamp = 2 * MinuteMs
    /\ result.returned
    /\ Len(result.value) = 2

\* C17, as stated: for every label that does not match ^\d+(m|h|d)$ and every
\* candle array, the empty one included, aggregateCandles throws the
\* invalid-timeframe error and returns nothing.
C17_InvalidLabelAlwaysThrows ==
    (/\ pc = "done"
     /\ call.op = "aggregateCandles"
     /\ ~TimeframeMatches(call.timeframe))
    => /\ ~result.returned
       /\ result.error = "Invalid timeframe"

\* C11: at step i the strategy's ctx.candles is primarySeries[0..i], of length
\* i + 1 and ending with the current candle, and ctx.index is i: no candle
\* after the current one is in the view.
C11_PrimaryView ==
    [][(pc = "loop" /\ i' = i + 1)
       => /\ ctx'.index = i
          /\ Len(ctx'.candles) = i + 1
          /\ \A k \in 1..(i + 1) : ctx'.candles[k] = primarySeries[k]
          /\ ctx'.currentCandle = primarySeries[i + 1]
          /\ ctx'.candles[i + 1] = ctx'.currentCandle]_vars

\* C11 witness: the second step of a run over three candles has been taken.
C11_SecondOfThree ==
    /\ pc = "loop"
    /\ i = 2
    /\ Len(primarySeries) = 3
    /\ ctx.index = 1
    /\ Len(ctx.candles) = 2

\* C12, as stated: at every step, every aggregated candle in a timeframe's view
\* has its bucket end (its timestamp plus the duration of the timeframe) at or
\* before the timestamp of the current primary candle.
C12_BucketsEndedByNow ==
    (pc \in {"loop", "done"} /\ i > 0)
    => \A k \in 1..Len(ctx.candlesByTf) :
          timeframeToMs(ctx.candlesByTf[k].tf).ok
          => \A c \in 1..Len(ctx.candlesByTf[k].candles) :
                ctx.candlesByTf[k].candles[c].timestamp + timeframeToMs(ctx.candlesByTf[k].tf).value
                    <= ctx.currentCandle.timestamp

\* C13: over the steps of a run no cursor decreases and each view is a prefix
\* of the view of the step after; when the primary series and the series of a
\* timeframe are in time order, the view of that timeframe is exactly the
\* aggregated candles whose timestamp is at or before the current candle's.
C13_CursorsMoveForward ==
    [][(pc = "loop" /\ i' = i + 1)
       => /\ Len(tfIndices') = Len(candlesByTf)
          /\ Len(ctx'.candlesByTf) = Len(candlesByTf)
          /\ \A k \in 1..Len(candlesByTf) :
                LET arr   == candlesByTf[k].candles
                    view  == ctx'.candlesByTf[k].candles
                    now   == primarySeries[i + 1].timestamp
                    Ascending(series) ==
                        \A a \in 1..(Len(series) - 1) : series[a].timestamp <= series[a + 1].timestamp
                IN  /\ tfIndices'[k] >= tfIndices[k]
                    /\ tfIndices'[k] <= Len(arr)
                    /\ ctx'.candlesByTf[k].tf = candlesByTf[k].tf
                    /\ view = SubSeq(arr, 1, tfIndices'[k])
                    /\ i > 0 => /\ Len(ctx.candlesByTf[k].candles) <= Len(view)
                                /\ ctx.candlesByTf[k].candles
                                      = SubSeq(view, 1, Len(ctx.candlesByTf[k].candles))
                    /\ (Ascending(primarySeries) /\ Ascending(arr))
                       => view = SelectSeq(arr, LAMBDA c : c.timestamp <= now)]_vars

\* C13 witness: a run over the minutes 0, 1, 2 with the timeframe 2m has taken
\* its third step: the cursor stood at 1 for two steps and is now at 2.
C13_CursorStoodThenMoved ==
    /\ pc = "loop"
    /\ i = 3
    /\ ~call.data.isMapping
    /\ Keys(candlesByTf) = << <<"2", "m">> >>
    /\ Len(candlesByTf[1].candles) = 2
    /\ tfIndices = <<2>>
    /\ Len(ctx.candlesByTf[1].candles) = 2

\* C14: given a mapping whose run starts, the primary series is the series of
\* a label whose duration is the smallest among the labels of the mapping that
\* are timeframes, wherever that key stands, and a completed run has taken as
\* many steps as that series has candles.
C14_SmallestDurationDrives ==
    (call.op = "run" /\ call.data.isMapping /\ pc \in {"loop", "done"})
    => /\ \E k \in 1..Len(call.data.mapping) :
            /\ timeframeToMs(call.data.mapping[k].tf).ok
            /\ \A j \in 1..Len(call.data.mapping) :
                  timeframeToMs(call.data.mapping[j].tf).ok
                  => timeframeToMs(call.data.mapping[k].tf).value
                        <= timeframeToMs(call.data.mapping[j].tf).value
            /\ primarySeries = call.data.mapping[k].candles
       /\ i <= Len(primarySeries)
       /\ Len(signals) = i
       /\ pc = "done" => i = Len(primarySeries)

\* C14 witness: a completed run over the mapping {2m: one candle, 1m: two
\* candles} has taken two steps.
C14_SecondKeyDrives ==
    /\ pc = "done"
    /\ call.data.isMapping
    /\ Keys(call.data.mapping) = << <<"2", "m">>, <<"1", "m">> >>
    /\ Len(call.data.mapping[1].candles) = 1
    /\ Len(call.data.mapping[2].candles) = 2
    /\ i = 2
    /\ Len(signals) = 2

\* C18: run() over an empty candle array never fails, whatever the timeframes
\* of the engine, and returns no trades, the zero metrics and a finalCapital
\* equal to initialCapital.
C18_EmptyDataReturns ==
    (call.op = "run" /\ ~call.data.isMapping /\ call.data.raw = <<>>)
    => /\ pc # "failed"
       /\ pc = "done"
          => /\ result.returned
             /\ result.trades = <<>>
             /\ result.metrics.totalTrades = 0
             /\ result.finalCapital = engine.initialCapital * MoneyUnit
             /\ i = 0
             /\ signals = <<>>

\* C18 witness: run() over an empty array has returned, on an engine whose
\* only timeframe label is no timeframe.
C18_EmptyRunDone ==
    /\ pc = "done"
    /\ ~call.data.isMapping
    /\ call.data.raw = <<>>
    /\ engine.timeframes = << <<"1", "w">> >>
    /\ result.returned

\* C19, as stated: run() has recorded one EquityPoint for every step at which
\* the strategy returned normally, the point of step k carrying the timestamp
\* of candle k.
C19_OnePointPerStep ==
    LET returnedAt == {k \in 1..Len(signals) : signals[k].outcome # "throw"}
    IN  /\ Len(equityPoints) = Cardinality(returnedAt)
        /\ \A e \in 1..Len(equityPoints) :
              \E k \in returnedAt : equityPoints[e].timestamp = primarySeries[k].timestamp

\* C20: for every trade list calculateMetrics reports a winRate between 0 and
\* 100 and an accuracy equal to it; wins counts the trades with pnl > 0,
\* losses the trades with pnl < 0, a trade with pnl = 0 is in neither, so
\* wins + losses <= totalTrades; with at least one trade winRate is
\* wins / totalTrades * 100 in the two decimals of the report.  (winRate and
\* accuracy are in hundredths of a percent.)
C20_WinRate ==
    (pc = "done" /\ call.op = "calculateMetrics")
    => LET m     == result.value
           total == Len(call.trades)
           won   == Cardinality({k \in 1..total : call.trades[k].pnl > 0})
           lost  == Cardinality({k \in 1..total : call.trades[k].pnl < 0})
           even  == Cardinality({k \in 1..total : call.trades[k].pnl = 0})
       IN  /\ m.winRate >= 0
           /\ m.winRate <= 100 * 100
           /\ m.accuracy = m.winRate
           /\ m.totalTrades = total
           /\ m.wins = won
           /\ m.losses = lost
           /\ m.wins + m.losses = total - even
           /\ m.wins + m.losses <= m.totalTrades
           /\ total = 0 => m.winRate = 0
           /\ total > 0 => 2 * Abs(m.winRate * total - won * 100 * 100) <= total

\* C20 witness: the metrics of a win, a loss and a trade that broke even: one
\* win, one loss, a winRate of 33.33.
C20_WinLossEven ==
    /\ pc = "done"
    /\ call.op = "calculateMetrics"
    /\ Len(call.trades) = 3
    /\ \E k \in 1..3 : call.trades[k].pnl = 0
    /\ result.value.wins = 1
    /\ result.value.losses = 1
    /\ result.value.winRate = 3333
    /\ result.value.accuracy = 3333

\* C21: for every trade list the reported profitFactor is either infinite or a
\* number >= 0: it is grossProfit / grossLoss (in the two decimals of the
\* report) when grossLoss > 0, infinite when grossLoss = 0 and grossProfit > 0,
\* and 0 when both are 0.  (The finite value is in hundredths.)
C21_ProfitFactor ==
    (pc = "done" /\ call.op = "calculateMetrics")
    => LET pf == result.value.profitFactor
           RECURSIVE Gross(_, _)
           Gross(n, sign) ==
               IF n = 0 THEN 0
               ELSE Gross(n - 1, sign)
                    + (IF sign * call.trades[n].pnl > 0 THEN sign * call.trades[n].pnl ELSE 0)
           grossProfit == Gross(Len(call.trades), 1)
           grossLoss   == Gross(Len(call.trades), -1)
       IN  /\ pf.infinite \in BOOLEAN
           /\ pf.value >= 0
           /\ grossLoss > 0
              => /\ ~pf.infinite
                 /\ 2 * Abs(pf.value * (grossLoss \div MoneyUnit) - 100 * (grossProfit \div MoneyUnit))
                       <= grossLoss \div MoneyUnit
           /\ (grossLoss = 0 /\ grossProfit > 0) => pf.infinite
           /\ (grossLoss = 0 /\ grossProfit = 0) => (~pf.infinite /\ pf.value = 0)

\* C21 witness: the metrics of two wins and a trade that broke even report an
\* infinite profit factor.
C21_WinsWithoutLoss ==
    /\ pc = "done"
    /\ call.op = "calculateMetrics"
    /\ Len(call.trades) = 3
    /\ \A k \in 1..3 : call.trades[k].pnl >= 0
    /\ \E k \in 1..3 : call.trades[k].pnl = 0
    /\ result.value.wins = 2
    /\ result.value.profitFactor.infinite

\* C22, as stated: with at least one trade maxDrawdown is the largest
\* difference, over the points of the equity series, between the highest
\* equity of the series up to the point and the equity of the point.
C22_PeakOfSeriesOnly ==
    (pc = "done" /\ call.op = "calculateMetrics" /\ Len(call.trades) > 0)
    => LET eq == call.equityCurve
           PeakAt(k) == CHOOSE p \in {eq[j].equity : j \in 1..k} :
                            \A j \in 1..k : eq[j].equity <= p
           Drawdowns == {PeakAt(k) - eq[k].equity : k \in 1..Len(eq)} \cup {0}
           largest == CHOOSE d \in Drawdowns : \A e \in Drawdowns : e <= d
       IN  result.value.maxDrawdown * MoneyUnit = 100 * largest

\* C22: with at least one trade maxDrawdown is the largest difference, over
\* the points of the equity series, between the running peak and the equity
\* of the point, the running peak being the highest of the initial capital and
\* the equities up to the point; maxDrawdownPercent is that drawdown in percent
\* of the running peak at the first point where it is reached; both are >= 0,
\* and both are 0 for an empty equity series.  (Both in hundredths.)
C22_MaxDrawdown ==
    (pc = "done" /\ call.op = "calculateMetrics" /\ Len(call.trades) > 0)
    => LET eq == call.equityCurve
           m  == result.value
           PeakAt(k) == CHOOSE p \in {eq[j].equity : j \in 1..k} \cup {call.initialCapital} :
                            /\ p >= call.initialCapital
                            /\ \A j \in 1..k : eq[j].equity <= p
           DrawdownAt(k) == PeakAt(k) - eq[k].equity
           Drawdowns == {DrawdownAt(k) : k \in 1..Len(eq)} \cup {0}
           largest == CHOOSE d \in Drawdowns : \A e \in Drawdowns : e <= d
       IN  /\ m.maxDrawdown >= 0
           /\ m.maxDrawdownPercent >= 0
           /\ m.maxDrawdown * MoneyUnit = 100 * largest
           /\ largest = 0 => m.maxDrawdownPercent = 0
           /\ eq = <<>> => (m.maxDrawdown = 0 /\ m.maxDrawdownPercent = 0)
           /\ largest > 0
              => LET first == CHOOSE k \in 1..Len(eq) :
                                 /\ DrawdownAt(k) = largest
                                 /\ \A j \in 1..(k - 1) : DrawdownAt(j) < largest
                     peak  == PeakAt(first) \div MoneyUnit
                 IN  2 * Abs(m.maxDrawdownPercent * peak - 100 * 100 * (largest \div MoneyUnit))
                        <= peak

\* C22 witness: the metrics of one trade and an equity series that stays below
\* the initial capital of 3: 2, then 1; the drawdown is 2.00, 66.67 percent
\* of the peak 3.
C22_BelowInitialCapital ==
    /\ pc = "done"
    /\ call.op = "calculateMetrics"
    /\ Len(call.trades) = 1
    /\ call.initialCapital = 3 * MoneyUnit
    /\ Len(call.equityCurve) = 2
    /\ call.equityCurve[1].equity = 2 * MoneyUnit
    /\ call.equityCurve[2].equity = 1 * MoneyUnit
    /\ result.value.maxDrawdown = 200
    /\ result.value.maxDrawdownPercent = 6667

\* C23: the strategy is handed the same state bag at every step: it is empty
\* at step 0, the bag handed over at a step is the bag as the earlier steps
\* left it, what a step wrote stays in it at every later step, also when a
\* call raised, and nothing but the write of the step's own call changes it.
C23_StateBagKept ==
    [][/\ state \subseteq state'
       /\ (pc = "loop" /\ i < Len(primarySeries))
          => /\ ctx'.index = i
             /\ ctx'.state = state
             /\ (i = 0 => ctx'.state = {})
             /\ state' \ state \subseteq {i}
       /\ ~(pc = "loop" /\ i < Len(primarySeries)) => state' = state]_vars

\* C23 witness: step 0 wrote to the bag, the call of step 1 raised, and the
\* strategy of step 2 is handed a bag that holds what step 0 wrote.
C23_ReadAfterFailedStep ==
    /\ call.op = "run"
    /\ call.strategyCode.writesState
    /\ ctx.index = 2
    /\ 0 \in ctx.state
    /\ Len(signals) >= 2
    /\ signals[2].outcome = "throw"

C25_ViewsAreSnapshots ==
    [][(pc = "loop" /\ i < Len(primarySeries))
       => /\ primarySeries' = primarySeries
          /\ candlesByTf' = candlesByTf
          /\ (position = NoPosition /\ position' # NoPosition /\ position'.side = "LONG")
             => position'.entryPrice
                = LongEntryPrice(primarySeries[i + 1].close, engine.slippage)]_vars

\* C26, as stated: every strategy call is bounded in time, a call that does
\* not come back within the budget is a failed step after which the loop goes
\* on, so that run() comes to an end, returning or raising, for every
\* strategy, also one whose call never returns.
C26_RunTerminates ==
    <>(pc \in {"done", "failed"})

\* C27, as stated: strategy code obtains the module crypto and nothing else
\* of the host: code that requires another module when it is loaded is
\* refused, a call that requires another module raises, at every step, and
\* process and the timer functions are never reached.
C27_OnlyTheAllowedModule ==
    call.op = "run"
    => /\ reached \subseteq {"crypto"}
       /\ call.strategyCode.loadRequire \notin {"none", "crypto"} => pc \in {"start", "failed"}
       /\ call.strategyCode.callRequire \notin {"none", "crypto"}
          => \A k \in 1..Len(signals) : signals[k].outcome = "throw"

\* C28: a step whose strategy result is null or undefined, has no signal
\* field, or has a signal other than BUY and SELL (HOLD, the lower-case buy)
\* leaves capital, position and trades as they were.
C28_NoActionNoChange ==
    [][(/\ pc = "loop"
        /\ i' = i + 1
        /\ \/ signals'[Len(signals')].outcome = "null"
           \/ /\ signals'[Len(signals')].outcome = "object"
              /\ signals'[Len(signals')].signal \notin {"BUY", "SELL"})
       => /\ capital' = capital
          /\ position' = position
          /\ trades' = trades]_vars

\* C28 witness: after a BUY opened a position the strategy returned the
\* lower-case buy, then null; the position is still the one of step 0.
C28_UnknownActionsWhileOpen ==
    /\ pc = "loop"
    /\ Len(signals) = 3
    /\ signals[1].outcome = "object" /\ signals[1].signal = "BUY"
    /\ signals[2].outcome = "object" /\ signals[2].signal = "buy"
    /\ signals[3].outcome = "null"
    /\ position # NoPosition
    /\ position.entryIndex = 0
    /\ trades = <<>>

\* C29, as stated: loadData resolves with the candles of exactly those rows
\* whose timestamp parses and whose open, high, low and close are all numbers,
\* in input order; no row makes the load fail.
C29_ExactlyTheNumericRows ==
    (pc = "done" /\ call.op = "loadData" /\ call.file.readable)
    => LET Numeric(column) ==
               /\ column.present
               /\ column.text # <<>>
               /\ \A k \in 1..Len(column.text) : column.text[k] \in Digits
           Valid(row) ==
               /\ RowTimestamp(row).ok
               /\ Numeric(row.open) /\ Numeric(row.high)
               /\ Numeric(row.low) /\ Numeric(row.close)
           kept == SelectSeq(call.file.rows, Valid)
       IN  /\ result.returned
           /\ Len(result.value) = Len(kept)
           /\ \A k \in 1..Len(kept) :
                 /\ result.value[k].timestamp = RowTimestamp(kept[k]).value
                 /\ result.value[k].open = Finite(parseInt(kept[k].open.text))

\* C30, as stated: every candle loadData resolves with has a finite open,
\* high, low and close and a volume that is a number, and the volume is 0 when
\* the volume column of its row is absent or does not parse as a number.
C30_FinitePricesVolumeOrZero ==
    (pc = "done" /\ call.op = "loadData" /\ call.file.readable)
    => LET Loaded(row) == RowCandle(row).ok
           kept == SelectSeq(call.file.rows, Loaded)
       IN  /\ result.returned
           /\ Len(result.value) = Len(kept)
           /\ \A k \in 1..Len(result.value) :
                 LET candle == result.value[k]
                 IN  /\ candle.open.kind = "finite"
                     /\ candle.high.kind = "finite"
                     /\ candle.low.kind = "finite"
                     /\ candle.close.kind = "finite"
                     /\ candle.volume.kind # "nan"
                     /\ (~kept[k].volume.present \/ parseFloat(kept[k].volume.text) = NaN)
                        => candle.volume = Finite(0)

\* C32: run() hands calculateMetrics an empty equity series: the report of
\* every run that returned has maxDrawdown 0, maxDrawdownPercent 0 and
\* sharpeRatio 0, whatever the trades; its
\* totalTrades, wins, losses and netPnL are those of the trade list.
C32_MetricsOfEmptyEquitySeries ==
    (call.op = "run" /\ pc = "done" /\ result.returned)
    => LET m == result.metrics
           ts == result.trades
           total == SumPnl(ts)
       IN  /\ m.maxDrawdown = 0
           /\ m.maxDrawdownPercent = 0
           /\ m.sharpeRatio = 0
           /\ m.totalTrades = Len(ts)
           /\ m.wins = Cardinality({k \in 1..Len(ts) : ts[k].pnl > 0})
           /\ m.losses = Cardinality({k \in 1..Len(ts) : ts[k].pnl < 0})
           /\ 2 * Abs(m.netPnL * (MoneyUnit \div 100) - total) <= MoneyUnit \div 100

\* C32 witness: a run returned two trades, a loss and a win, with costs; its
\* report counts them and shows no drawdown.
C32_LossReportedWithoutDrawdown ==
    /\ call.op = "run"
    /\ pc = "done"
    /\ engine.commission > 0
    /\ Len(result.trades) = 2
    /\ result.trades[1].pnl < 0
    /\ result.trades[2].pnl > 0
    /\ result.metrics.losses = 1
    /\ result.metrics.wins = 1
    /\ result.metrics.maxDrawdown = 0

\* C33, as stated: for every run that returned, LONG and SHORT trades alike,
\* finalCapital minus the initial capital is the sum of the pnl of the trades
\* of the result.
C33_CapitalConservation ==
    (call.op = "run" /\ pc = "done" /\ result.returned)
    => result.finalCapital - engine.initialCapital * MoneyUnit = SumPnl(result.trades)

\* C34: with closes >= 0, sizes > 0 and commission and slippage in [0, 1)
\* capital is >= 0 after every step of run() and when run() returns, for
\* every sequence of signals.
C34_CapitalNeverNegative ==
    call.op = "run"
    => /\ capital >= 0
       /\ (pc = "done" /\ result.returned) => result.finalCapital >= 0

\* C34 witness: with costs, a LONG open took all of the capital but less
\* than one unit of it, and the position was then closed at a loss.
C34_NearlyAllCapitalSpent ==
    /\ call.op = "run"
    /\ pc = "loop"
    /\ engine.commission > 0
    /\ position = NoPosition
    /\ Len(trades) = 1
    /\ trades[1].side = "LONG"
    /\ trades[1].pnl < 0
    /\ capital > 0
    /\ capital - NetRevenue(trades[1].exitPrice, trades[1].size, engine.commission) < MoneyUnit

C38_CashConservation ==
    (call.op = "PaperBroker" /\ \A symbol \in Symbols : broker.positions[symbol] = NoPosition)
    => LET RECURSIVE Realised(_)
           Realised(n) ==
               IF n = 0 THEN 0
               ELSE Realised(n - 1)
                    + (IF broker.orders[n].status = "filled"
                          /\ toUpperCase(broker.orders[n].side) = "SELL"
                       THEN broker.orders[n].pnl ELSE 0)
       IN  broker.balance = broker.initialCapital + Realised(Len(broker.orders))

\* C39, as stated: the equity of the broker is its balance plus the pnl
\* stored in its open positions, and its balance when no position is open.
C39_EquityConsistency ==
    call.op = "PaperBroker"
    => broker.equity = broker.balance + SumPositionPnl(broker.positions, Symbols)

\* C35, as stated: once stopTradingSession has returned for a session, the
\* session is out of the registry and no strategy call, no broker order and
\* no entry of session.trades happens for it any more, also not from a
\* callback that was at its await when the session was stopped.
C35_NothingAfterStop ==
    [][\A sessionId \in 1..Len(sessionObjects) :
          sessionId \notin activeSessions
          => /\ sessionId \notin activeSessions'
             /\ sessionObjects'[sessionId].strategyCalls = sessionObjects[sessionId].strategyCalls
             /\ sessionObjects'[sessionId].orders = sessionObjects[sessionId].orders
             /\ sessionObjects'[sessionId].trades = sessionObjects[sessionId].trades]_vars

\* C36, as stated: the callbacks of one session run one at a time: no
\* session has two callbacks at their awaits, and the orders of a session are
\* placed in the order of their candles.
C36_OneTickAtATime ==
    call.op = "live trading"
    => \A sessionId \in 1..Len(sessionObjects) :
          /\ Cardinality({tick \in ticks : tick.session = sessionId}) <= 1
          /\ \A k \in 1..(Len(sessionObjects[sessionId].orders) - 1) :
                sessionObjects[sessionId].orders[k].candle
                    < sessionObjects[sessionId].orders[k + 1].candle

\* C37: a call of startTradingSession for an id that is not in the registry
\* raises 'Trading session not found' and a call for a session that is
\* running returns, both without changing sessions or timers; and after every
\* step no session has more than one interval that is set and not cleared.
C37_StartOnlyOnce ==
    [][/\ (result' # result /\ result'.op = "startTradingSession")
          => /\ result'.sessionId \notin activeSessions
                => /\ result'.outcome = "Trading session not found"
                   /\ UNCHANGED <<sessionObjects, activeSessions, timers, ticks>>
             /\ (result'.sessionId \in activeSessions
                 /\ sessionObjects[result'.sessionId].isRunning)
                => /\ result'.outcome = "returned"
                   /\ UNCHANGED <<sessionObjects, activeSessions, timers, ticks>>
       /\ \A sessionId \in SessionIds :
             Cardinality({timer \in timers' : timer.session = sessionId}) <= 1]_vars

\* C37 witness: session 1 was set up, started and stopped, and a later start
\* of it raised; session 2 is running, was asked to start again, and has its
\* one interval.
C37_StoppedSessionNotFound ==
    /\ call.op = "live trading"
    /\ Len(sessionObjects) = 2
    /\ 1 \notin activeSessions
    /\ sessionObjects[1].intervalsSet = 1
    /\ ~sessionObjects[1].isRunning
    /\ 2 \in activeSessions
    /\ sessionObjects[2].isRunning
    /\ timers = {[session |-> 2, interval |-> 1]}
    /\ result = [op |-> "startTradingSession", sessionId |-> 1,
                 outcome |-> "Trading session not found"]
====
